---------------------------- MODULE Spec2Model ----------------------------
(***************************************************************************)
(* A model of the rosewm dispatcher: the database of executable files      *)
(* (executables_database.cc), the command staging and the executor process *)
(* (execution.cc) and the IPC client (ipc.cc).                             *)
(*                                                                         *)
(* Typed text and file names are sequences of bytes (0..255).  Buffers     *)
(* that can hold tens of thousands of bytes (the staging buffer, the pipe, *)
(* the executor's packet storage) are sequences of runs <<byte, count>>,   *)
(* so that the program's real sizes (64 KiB, 16-bit lengths) are kept.     *)
(***************************************************************************)
EXTENDS Integers, Sequences, FiniteSets, TLC

VARIABLES
    \* main() up to its event loop: its position, the descriptors of the
    \* executor pipe that are open in the program, the handle returned by
    \* run_executor_process, and the thread of the IPC client
    main_pc, pipe_fds, pipe_endpoint, ipc_thread,
    \* the time on the steady clock of the I/O context, and for each client
    \* routine the expiry of its timer and the time at which its last
    \* connection or connection attempt ended
    now, timer_expiry, ended_at,
    \* history of the text of the prompt: for each of its bytes, the prompt
    \* under which it was entered
    entered_under,
    \* process_packet of run_status_client, followed through a packet: the
    \* packet, the offsets at which a type byte was read, the offset at
    \* which the loop ended, and the events pushed
    status_op, status_packet, status_read, status_end, status_events,
    \* process_packet followed iteration by iteration: the channel, the
    \* span that is left, the size of the packet, the iterations made
    loop_pc, loop_ch, loop_packet, loop_size, loop_count,
    \* the environment of the database: PATH and the directories
    env_path, directories,
    \* executables_database: names -> directory, full paths, last lookup
    files_, paths_, db_op, db_input, db_result, db_shown,
    \* execute(): last call of the staging and submission functions
    cmd_op, cmd_string, cmd_ret, cmd_writes, cmd_post,
    \* main(): the prompt's mode, the window, the text input and the event
    \* handled last
    is_prompt_privileged, is_window_visible, string_, cursor_history_,
    main_event,
    \* the executor pipe and the parent's side of it
    pipe, par_pc, par_buf, par_cmd, wr_open, accepted,
    \* the executor process, its launcher child and the programs launched
    ex_pc, packet_size, packet_storage, la_pc, la_argv, targets, launched,
    \* the ends of the executor pipe held by the executor, by its launcher
    \* child and by each program launched
    executor_fds, launcher_fds, target_fds,
    \* the IPC client: shared flags, the I/O context, the two channels, the
    \* send routines and the calls of execute(ipc_client, string)
    is_program_running, context, endpoint, is_tx_active, socket, wire,
    client_pc, attempts, ipc_packet_size, ipc_packet, events, senders, calls

dbVars  == <<env_path, directories, files_, paths_, db_op, db_input,
             db_result, db_shown>>
mainVars == <<is_prompt_privileged, is_window_visible, string_,
              cursor_history_, main_event, entered_under>>
cmdVars == <<cmd_op, cmd_string, cmd_ret, cmd_writes, cmd_post, mainVars>>
parVars == <<pipe, par_pc, par_buf, par_cmd, wr_open, accepted>>
exVars  == <<ex_pc, packet_size, packet_storage, la_pc, la_argv, targets,
             launched, executor_fds, launcher_fds, target_fds>>
ipcVars == <<is_program_running, context, endpoint, is_tx_active, socket,
             wire, client_pc, attempts, ipc_packet_size, ipc_packet, events,
             senders, calls>>
startVars == <<main_pc, pipe_fds, pipe_endpoint, ipc_thread>>
clockVars == <<now, timer_expiry, ended_at>>
loopVars == <<loop_pc, loop_ch, loop_packet, loop_size, loop_count>>
statusVars == <<status_op, status_packet, status_read, status_end,
                status_events, loopVars>>
vars    == <<startVars, clockVars, statusVars, dbVars, cmdVars, parVars, exVars, ipcVars>>

\* The two channels of the IPC client.
Channels == {"dispatch", "status"}

\* What an action of one part of the program leaves alone.
notDb   == <<startVars, clockVars, statusVars, cmdVars, parVars, exVars, ipcVars>>
notCmd  == <<startVars, clockVars, statusVars, dbVars, parVars, exVars, ipcVars>>
notExec == <<startVars, clockVars, statusVars, dbVars, cmdVars, ipcVars>>
notClient == <<startVars, statusVars, dbVars, cmdVars, parVars, exVars>>
notIpc  == <<notClient, clockVars>>

\* The descriptor of the write end of the executor pipe, and the value
\* returned when the executor could not be started.
WriteFd == 4
InvalidFd == 0 - 1

\* The program has started and is in its event loop.
startIdle ==
    /\ main_pc = "loop"
    /\ pipe_fds = {"write"}
    /\ pipe_endpoint = <<WriteFd>>
    /\ ipc_thread = "running"

\* The client routines have been spawned at time 0 of the clock, and no
\* timer has been set.
clockIdle ==
    /\ now = 0
    /\ timer_expiry = [ch \in {"dispatch", "status"} |-> 0]
    /\ ended_at = [ch \in {"dispatch", "status"} |-> 0]

\* No status packet is followed.
statusIdle ==
    /\ status_op = "none"
    /\ status_packet = <<>>
    /\ status_read = <<>>
    /\ status_end = 0
    /\ status_events = <<>>
    /\ loop_pc = "none"
    /\ loop_ch = "none"
    /\ loop_packet = <<>>
    /\ loop_size = 0
    /\ loop_count = 0

\* The parts a specification does not exercise stay as constructed.
dbIdle ==
    /\ env_path = <<>>
    /\ directories = <<>>
    /\ files_ = <<>>
    /\ paths_ = {}
    /\ db_op = "none"
    /\ db_input = <<>>
    /\ db_result = <<>>
    /\ db_shown = <<>>

mainIdle ==
    /\ is_prompt_privileged = FALSE
    /\ is_window_visible = FALSE
    /\ string_ = <<>>
    /\ cursor_history_ = <<>>
    /\ main_event = "none"
    /\ entered_under = <<>>

cmdIdle ==
    /\ mainIdle
    /\ cmd_op = "none"
    /\ cmd_string = <<>>
    /\ cmd_ret = "none"
    /\ cmd_writes = <<>>
    /\ cmd_post = <<>>

execIdle ==
    /\ pipe = <<>>
    /\ par_pc = "idle"
    /\ par_buf = <<>>
    /\ par_cmd = <<>>
    /\ wr_open = TRUE
    /\ accepted = <<>>
    /\ ex_pc = "read_size"
    /\ packet_size = 0
    /\ packet_storage = <<>>
    /\ la_pc = "none"
    /\ la_argv = <<>>
    /\ targets = <<>>
    /\ launched = <<>>
    /\ executor_fds = IF ex_pc = "none" THEN {} ELSE {"read"}
    /\ launcher_fds = {}
    /\ target_fds = <<>>

ipcIdle ==
    /\ is_program_running = TRUE
    /\ context = "run"
    /\ endpoint = "unset"
    /\ is_tx_active = FALSE
    /\ socket = [ch \in Channels |-> "unconnected"]
    /\ wire = [ch \in Channels |-> <<>>]
    /\ client_pc = [ch \in Channels |-> "start"]
    /\ attempts = [ch \in Channels |-> "none"]
    /\ ipc_packet_size = [ch \in Channels |-> 0]
    /\ ipc_packet = [ch \in Channels |-> <<>>]
    /\ events = <<>>
    /\ senders = <<>>
    /\ calls = <<>>

---------------------------------------------------------------------------
(* Bytes with a meaning in the code.                                       *)

Space     == 32
Slash     == 47
Backslash == 92
Nul       == 0
ByteMod   == 256

---------------------------------------------------------------------------
(* Plain byte strings (std::u8string).                                     *)

starts_with(s, p) ==
    /\ Len(p) <= Len(s)
    /\ SubSeq(s, 1, Len(p)) = p

\* std::u8string comparison: lexicographic on unsigned bytes.
RECURSIVE string_less(_, _)
string_less(a, b) ==
    IF b = <<>> THEN FALSE
    ELSE IF a = <<>> THEN TRUE
    ELSE IF Head(a) # Head(b) THEN Head(a) < Head(b)
    ELSE string_less(Tail(a), Tail(b))

\* The past-the-end iterator of a set or map.
map_end == <<ByteMod>>

\* std::set::lower_bound / std::map::lower_bound over the keys `map`.
lower_bound(map, key) ==
    LET C == {e \in map : ~string_less(e, key)}
    IN  IF C = {} THEN map_end
        ELSE CHOOSE e \in C : \A f \in C : f = e \/ string_less(e, f)

RECURSIVE append_escaped(_, _)
append_escaped(input, result) ==
    IF input = <<>> THEN result
    ELSE LET c == Head(input)
         IN  append_escaped(Tail(input),
                            IF c = Space THEN result \o <<Backslash, c>>
                                         ELSE result \o <<c>>)

append_escaped_path(path, result) ==
    IF path = <<>> THEN result
    ELSE LET r == append_escaped(path, result)
         IN  IF r[Len(r)] # Slash THEN Append(r, Slash) ELSE r

\* The loop of split_command_string: `offset` counts the consumed characters.
RECURSIVE split_loop(_, _, _, _)
split_loop(input, offset, is_escaped, command) ==
    IF offset = Len(input) THEN [command |-> command, offset |-> offset]
    ELSE LET c == input[offset + 1]
         IN  IF ~is_escaped /\ c = Backslash
                 THEN split_loop(input, offset + 1, TRUE, command)
             ELSE IF ~is_escaped /\ c = Space
                 THEN [command |-> command, offset |-> offset + 1]
             ELSE split_loop(input, offset + 1, FALSE, Append(command, c))

\* A faulty variant: the arguments start at the first space, escaped or not.
split_command_string_at_space(input) ==
    LET k == CHOOSE n \in 0..Len(input) :
                 /\ \A i \in 1..n : input[i] # Space
                 /\ n = Len(input) \/ input[n + 1] = Space
    IN  [command   |-> SubSeq(input, 1, k),
         arguments |-> SubSeq(input, k + 2, Len(input))]

split_command_string(input) ==
    LET r == split_loop(input, 0, FALSE, <<>>)
    IN  [command   |-> r.command,
         arguments |-> SubSeq(input, r.offset + 1, Len(input))]

---------------------------------------------------------------------------
(* executables_database: lookups.                                          *)

\* The loop of perform_lookup in autocomplete.
RECURSIVE lookup_loop(_, _)
lookup_loop(map, result) ==
    LET i == lower_bound(map, result)
    IN  IF i = map_end THEN result
        ELSE IF ~starts_with(i, result) THEN result
        ELSE IF i = result THEN result
        ELSE LET next_character == i[Len(result) + 1]
                 probe == Append(result, (next_character + 1) % ByteMod)
                 j == lower_bound(map, probe)
             IN  IF j = map_end \/ ~starts_with(j, result)
                     THEN lookup_loop(map, Append(result, next_character))
                 ELSE IF i[Len(result) + 1] = j[Len(result) + 1]
                     THEN lookup_loop(map, Append(result, next_character))
                 ELSE result

perform_lookup(map, input) ==
    LET buffer_ == split_command_string(input).command
        result  == lookup_loop(map, buffer_)
    IN  append_escaped(SubSeq(result, Len(buffer_) + 1, Len(result)), <<>>)

autocomplete(input, files, paths) ==
    IF input = <<>> THEN <<>>
    ELSE IF Head(input) = Slash THEN perform_lookup(paths, input)
    ELSE perform_lookup(DOMAIN files, input)

append_command_string_(command, arguments, result, files) ==
    LET r == IF starts_with(command, <<Slash>>)
                 THEN append_escaped(command, result)
             ELSE IF command \in DOMAIN files
                 THEN append_escaped(command,
                          append_escaped_path(files[command], result))
             ELSE append_escaped(command, result)
    IN  IF arguments # <<>> THEN r \o <<Space>> \o arguments ELSE r

modify_command_string(input, files) ==
    LET s == split_command_string(input)
    IN  append_command_string_(s.command, s.arguments, <<>>, files)


\* The environment of executables_database::initialize: the value of PATH
\* (a byte string, or Unset), and the directories (path of a directory ->
\* its entries in the order in which they are listed; a directory outside
\* the domain cannot be opened).  An entry has a name and a kind: "exec"
\* (one of its execute bits is set), "plain" (none is), or "error" (its
\* status cannot be obtained: entry.status() throws).
Unset == <<ByteMod, ByteMod>>
Colon == 58

\* paths.find(':'): the index from 0 of the first colon, or npos.
npos == 0 - 1
RECURSIVE find_colon(_, _)
find_colon(paths, from) ==
    IF from = Len(paths) THEN npos
    ELSE IF paths[from + 1] = Colon THEN from
    ELSE find_colon(paths, from + 1)

\* std::filesystem::path without its trailing separators (the root stays).
RECURSIVE without_trailing_separator(_)
without_trailing_separator(path) ==
    IF Len(path) > 1 /\ path[Len(path)] = Slash
        THEN without_trailing_separator(SubSeq(path, 1, Len(path) - 1))
    ELSE path

\* A faulty variant: the entry's name alone.
entry_path_bare(directory_path, name) == name

\* entry.path(): the path given to the directory_iterator, a separator if
\* that path does not end with one, and the name of the entry.
entry_path(directory_path, name) ==
    IF directory_path[Len(directory_path)] = Slash
        THEN directory_path \o name
    ELSE directory_path \o <<Slash>> \o name

\* path.parent_path() and path.filename() of an entry's path.
parent_path(directory_path) == without_trailing_separator(directory_path)

\* The loop over the entries of one directory; an exception ends it, and
\* is caught outside of it.
RECURSIVE directory_loop(_, _, _, _)
directory_loop(entries, directory_path, files, paths) ==
    IF entries = <<>> THEN [files_ |-> files, paths_ |-> paths]
    ELSE LET entry == Head(entries)
         IN  IF entry.kind = "error"
                 THEN [files_ |-> files, paths_ |-> paths]
             ELSE IF entry.kind = "exec"
                 THEN directory_loop(Tail(entries), directory_path,
                          IF entry.name \in DOMAIN files THEN files
                          ELSE [n \in DOMAIN files \cup {entry.name} |->
                                   IF n \in DOMAIN files THEN files[n]
                                   ELSE parent_path(directory_path)],
                          paths \cup
                              {entry_path(directory_path, entry.name)})
             ELSE directory_loop(Tail(entries), directory_path, files,
                                 paths)

\* The loop over the directories of PATH.
RECURSIVE initialize_loop(_, _, _, _)
initialize_loop(paths, dirs, files, paths_of_files) ==
    IF paths = <<>> THEN [files_ |-> files, paths_ |-> paths_of_files]
    ELSE LET i == find_colon(paths, 0)
             directory_path ==
                 IF i = npos THEN paths ELSE SubSeq(paths, 1, i)
             rest == IF i = npos THEN <<>>
                     ELSE SubSeq(paths, i + 2, Len(paths))
             directory == without_trailing_separator(directory_path)
         IN  IF directory_path = <<>> \/ directory \notin DOMAIN dirs
                 THEN initialize_loop(rest, dirs, files, paths_of_files)
             ELSE LET r == directory_loop(dirs[directory], directory_path,
                                          files, paths_of_files)
                  IN  initialize_loop(rest, dirs, r.files_, r.paths_)

\* A faulty variant: the database is not cleared.
clear_nothing(files, paths) == [files_ |-> files, paths_ |-> paths]

\* files_.clear(); paths_.clear().
clear(files, paths) == [files_ |-> <<>>, paths_ |-> {}]

\* executables_database::initialize, on a database that holds `files` and
\* `paths`.
initialize(path, dirs, files, paths) ==
    LET cleared == clear(files, paths)
    IN  IF path = Unset THEN cleared
        ELSE initialize_loop(path, dirs, cleared.files_, cleared.paths_)

\* The elements of a set of names as entries that are executable files.
RECURSIVE ExecEntries(_)
ExecEntries(N) ==
    IF N = {} THEN <<>>
    ELSE LET n == CHOOSE x \in N : TRUE
         IN  <<[name |-> n, kind |-> "exec"]>> \o ExecEntries(N \ {n})

---------------------------------------------------------------------------
(* Bounds of the lookup model.                                             *)

MaxNameLen  == 2
MaxEntries  == 2
MaxInputLen == 3

\* A space, a backslash, the letter a and the largest byte.
NameBytes  == {Space, Backslash, 97, ByteMod - 1}
InputBytes == NameBytes \cup {Slash}

StringsUpTo(B, n) == UNION {[1..k -> B] : k \in 0..n}

NamePool  == StringsUpTo(NameBytes, MaxNameLen) \ {<<>>}
InputPool == StringsUpTo(InputBytes, MaxInputLen)

\* The one directory of the lookup model's search path.
Dir == <<Slash, 97>>

---------------------------------------------------------------------------
(* The lookup specification: a database built from one directory holding   *)
(* any small set of executables; lookups with any short typed text.        *)

InitLookup ==
    /\ env_path = Dir
    /\ \E N \in SUBSET NamePool :
          /\ Cardinality(N) <= MaxEntries
          /\ directories = [d \in {Dir} |-> ExecEntries(N)]
    /\ LET db == initialize(env_path, directories, <<>>, {})
       IN  files_ = db.files_ /\ paths_ = db.paths_
    /\ db_op = "none"
    /\ db_input = <<>>
    /\ db_result = <<>>
    /\ db_shown = <<>>
    /\ cmdIdle
    /\ startIdle
    /\ clockIdle
    /\ statusIdle
    /\ execIdle
    /\ ipcIdle

Autocomplete(input) ==
    /\ db_op = "none"
    /\ db_op' = "autocomplete"
    /\ db_input' = input
    /\ db_result' = autocomplete(input, files_, paths_)
    /\ UNCHANGED <<env_path, directories, files_, paths_, db_shown, notDb>>

AppendEscaped(input) ==
    /\ db_op = "none"
    /\ db_op' = "append_escaped"
    /\ db_input' = input
    /\ db_result' = append_escaped(input, <<>>)
    /\ UNCHANGED <<env_path, directories, files_, paths_, db_shown, notDb>>

NextLookup ==
    \/ \E input \in InputPool : Autocomplete(input)
    \/ \E input \in InputPool : AppendEscaped(input)

SpecLookup == InitLookup /\ [][NextLookup]_vars

---------------------------------------------------------------------------
(* Claims about the lookups.                                               *)

\* The un-escape rule: the token split_command_string takes from a text.
unescape(s) == split_command_string(s).command

\* The longest common prefix of a non-empty set of strings.
LongestCommonPrefix(M) ==
    LET e == CHOOSE x \in M : TRUE
        K == {k \in 0..Len(e) : \A x \in M : starts_with(x, SubSeq(e, 1, k))}
    IN  SubSeq(e, 1, CHOOSE k \in K : \A l \in K : l <= k)

LookupIndex(input) ==
    IF input # <<>> /\ Head(input) = Slash THEN paths_ ELSE DOMAIN files_

\* C8: the typed token followed by the un-escaped result of autocomplete is
\* the longest common prefix of the entries that have the token as a prefix,
\* and the result is empty when no entry has the token as a prefix.
C8_PrefixExtension ==
    (db_op = "autocomplete" /\ db_input # <<>>) =>
        LET p == split_command_string(db_input).command
            M == {e \in LookupIndex(db_input) : starts_with(e, p)}
        IN  IF M = {} THEN db_result = <<>>
            ELSE p \o unescape(db_result) = LongestCommonPrefix(M)

\* C9: un-escaping append_escaped(s) gives s back for every s that contains
\* a space, and the escaped text has no space the un-escape rule treats as
\* unescaped (the token runs to the end of the escaped text).
C9_EscapeRoundTrip ==
    (db_op = "append_escaped" /\ \E i \in DOMAIN db_input : db_input[i] = Space) =>
        /\ unescape(db_result) = db_input
        /\ split_loop(db_result, 0, FALSE, <<>>).offset = Len(db_result)
        /\ split_command_string(db_result).arguments = <<>>

---------------------------------------------------------------------------
(* Byte buffers as sequences of runs <<byte, count>>, count >= 1.          *)

RECURSIVE BLen(_)
BLen(s) == IF s = <<>> THEN 0 ELSE Head(s)[2] + BLen(Tail(s))

\* The canonical form: no empty run, no two adjacent runs of one byte.
RECURSIVE Norm(_)
Norm(s) ==
    IF s = <<>> THEN <<>>
    ELSE IF Head(s)[2] = 0 THEN Norm(Tail(s))
    ELSE LET r == Norm(Tail(s))
         IN  IF r # <<>> /\ Head(r)[1] = Head(s)[1]
                 THEN <<<<Head(s)[1], Head(s)[2] + Head(r)[2]>>>> \o Tail(r)
                 ELSE <<Head(s)>> \o r

BCat(a, b) == Norm(a \o b)

\* The first n bytes of s (all of s when it is shorter).
RECURSIVE BTake(_, _)
BTake(s, n) ==
    IF n = 0 \/ s = <<>> THEN <<>>
    ELSE IF Head(s)[2] >= n THEN <<<<Head(s)[1], n>>>>
    ELSE <<Head(s)>> \o BTake(Tail(s), n - Head(s)[2])

\* s without its first n bytes.
RECURSIVE BDrop(_, _)
BDrop(s, n) ==
    IF n = 0 \/ s = <<>> THEN s
    ELSE IF Head(s)[2] > n THEN <<<<Head(s)[1], Head(s)[2] - n>>>> \o Tail(s)
    ELSE BDrop(Tail(s), n - Head(s)[2])

\* The byte at index i (from 0) of s, i < BLen(s).
RECURSIVE BAt(_, _)
BAt(s, i) ==
    IF i < Head(s)[2] THEN Head(s)[1] ELSE BAt(Tail(s), i - Head(s)[2])

\* A plain byte string as runs, and back.
Runs(plain) == Norm([i \in DOMAIN plain |-> <<plain[i], 1>>])

RECURSIVE Plain(_)
Plain(s) ==
    IF s = <<>> THEN <<>>
    ELSE [i \in 1..Head(s)[2] |-> Head(s)[1]] \o Plain(Tail(s))

\* int_to_buffer / buffer_to_int for std::uint16_t (buffer.hh): two bytes.
U16Mod == 65536

int_to_buffer(n) == Norm(<<<<n % ByteMod, 1>>, <<n \div ByteMod, 1>>>>)

\* The integer of a two-byte buffer of which only the first BLen(b) bytes
\* were filled (the others keep the zero they were initialized with).
buffer_to_int(b) ==
    LET b0 == IF BLen(b) >= 1 THEN BAt(b, 0) ELSE 0
        b1 == IF BLen(b) >= 2 THEN BAt(b, 1) ELSE 0
    IN  b0 + ByteMod * b1

---------------------------------------------------------------------------
(* execution.cc: staging a typed string (initialize_command).              *)

\* buffer<64 * 1024, char8_t>::size()
StorageSize == 64 * 1024

\* The loop of initialize_command over the characters of `string`, given
\* as runs.  A run of n > 1 characters that are neither a space nor a
\* backslash is taken in one step: each of its characters runs the same
\* iteration (overflow check, store, size++), so k of them are stored as
\* long as the size stays below StorageSize - 1 before each store.
RECURSIVE initialize_command_loop(_, _, _, _)
initialize_command_loop(string, storage, size, is_escaped) ==
    IF string = <<>>
        THEN [storage |-> storage, size |-> size, overflow |-> FALSE]
    ELSE IF size = StorageSize - 1
        THEN [storage |-> storage, size |-> size, overflow |-> TRUE]
    ELSE LET c == Head(string)[1]
             n == Head(string)[2]
             room == (StorageSize - 1) - size
             k == IF c \notin {Space, Backslash} /\ n < room THEN n
                  ELSE IF c \notin {Space, Backslash} THEN room
                  ELSE 1
             rest == IF n = k THEN Tail(string)
                     ELSE <<<<c, n - k>>>> \o Tail(string)
         IN  IF ~is_escaped /\ c = Backslash
                 THEN initialize_command_loop(rest, storage, size, TRUE)
             ELSE IF c = Space /\ ~is_escaped
                 THEN initialize_command_loop(
                          rest, storage \o <<<<Nul, 1>>>>, size + 1, FALSE)
             ELSE initialize_command_loop(
                      rest, storage \o <<<<c, k>>>>, size + k, FALSE)

\* A faulty variant: an overflow returns the command staged so far.
initialize_command_truncating(string) ==
    LET r == initialize_command_loop(string, <<>>, 0, FALSE)
    IN  IF r.size # 0 /\ BAt(r.storage, r.size - 1) # Nul
            THEN [storage |-> BCat(r.storage, <<<<Nul, 1>>>>), size |-> r.size + 1]
            ELSE [storage |-> Norm(r.storage), size |-> r.size]

\* The staged command: `size`, and `storage` as its first `size` bytes (the
\* storage is zero-initialized, so the byte counted by the final size++ is
\* a NUL).
initialize_command(string) ==
    LET r == initialize_command_loop(string, <<>>, 0, FALSE)
    IN  IF r.overflow THEN [storage |-> <<>>, size |-> 0]
        ELSE IF r.size # 0 /\ BAt(r.storage, r.size - 1) # Nul
            THEN [storage |-> BCat(r.storage, <<<<Nul, 1>>>>), size |-> r.size + 1]
        ELSE [storage |-> Norm(r.storage), size |-> r.size]

---------------------------------------------------------------------------
(* ipc.cc: request_execution, and execution.cc: execute.                   *)

\* ipc_packet_storage::static_size()
IpcStorageSize == 8192

\* The tag of an execution request (packet.storage = {0x03}).
ExecuteTag == 3

\* A faulty variant of request_execution: the blob is not validated.
request_execution_unchecked(tx_active, command_and_args) ==
    LET size == BLen(command_and_args)
    IN  IF tx_active
            THEN [ret |-> FALSE, post |-> <<>>]
        ELSE [ret  |-> TRUE,
              post |-> <<[storage |-> BCat(<<<<ExecuteTag, 1>>>>, command_and_args),
                          size    |-> size + 1]>>]

\* request_execution: the value returned, and the packets handed to
\* asio::post (none or one).
request_execution(tx_active, command_and_args) ==
    LET size == BLen(command_and_args)
    IN  IF tx_active
            THEN [ret |-> FALSE, post |-> <<>>]
        ELSE IF size = 0 \/ size > IpcStorageSize - 1
            THEN [ret |-> FALSE, post |-> <<>>]
        ELSE IF BAt(command_and_args, size - 1) # Nul
            THEN [ret |-> FALSE, post |-> <<>>]
        ELSE [ret  |-> TRUE,
              post |-> <<[storage |-> BCat(<<<<ExecuteTag, 1>>>>, command_and_args),
                          size    |-> size + 1]>>]

\* execute(ipc_client&, string)
execute_ipc(tx_active, string) ==
    LET command == initialize_command(string)
        r == request_execution(tx_active, command.storage)
    IN  IF command.size # 0 /\ r.ret
            THEN [ret |-> "success", post |-> r.post]
            ELSE [ret |-> "failure", post |-> <<>>]

\* execute(pipe_endpoint const&, string): the buffers handed to write(), in
\* order, as far as the writes succeed (ok1: the size, ok2: the command),
\* and the value returned.
execute_pipe(string, ok1, ok2) ==
    LET command == initialize_command(string)
        size == int_to_buffer(command.size % U16Mod)
    IN  IF command.size = 0 THEN [ret |-> "failure", writes |-> <<>>]
        ELSE IF ~ok1 THEN [ret |-> "failure", writes |-> <<>>]
        ELSE IF ~ok2 THEN [ret |-> "failure", writes |-> <<size>>]
        ELSE [ret |-> "success", writes |-> <<size, command.storage>>]

---------------------------------------------------------------------------
(* The submission specification: execute() on typed strings, short ones    *)
(* and ones that begin with a long run of one letter.                      *)

MaxTypedLen == 3

\* The lengths of the long runs: around the two buffer sizes.
BulkCounts ==
    {IpcStorageSize - d : d \in 0..3} \cup {StorageSize - d : d \in 0..3}

TypedShort == StringsUpTo({Space, Backslash, 97}, MaxTypedLen)

TypedPool ==
    {Runs(t) : t \in TypedShort}
        \cup {BCat(<<<<97, n>>>>, Runs(t)) : n \in BulkCounts, t \in TypedShort}

InitSubmit ==
    /\ cmdIdle
    /\ startIdle
    /\ clockIdle
    /\ statusIdle
    /\ dbIdle
    /\ execIdle
    /\ ipcIdle

ExecutePipe(string, ok1, ok2) ==
    /\ cmd_op = "none"
    /\ cmd_op' = "execute_pipe"
    /\ cmd_string' = string
    /\ LET r == execute_pipe(string, ok1, ok2)
       IN  cmd_ret' = r.ret /\ cmd_writes' = r.writes
    /\ cmd_post' = <<>>
    /\ UNCHANGED <<mainVars, notCmd>>

ExecuteIpc(string, tx_active) ==
    /\ cmd_op = "none"
    /\ cmd_op' = "execute_ipc"
    /\ cmd_string' = string
    /\ LET r == execute_ipc(tx_active, string)
       IN  cmd_ret' = r.ret /\ cmd_post' = r.post
    /\ cmd_writes' = <<>>
    /\ UNCHANGED <<mainVars, notCmd>>

NextSubmit ==
    \/ \E string \in TypedPool, ok1, ok2 \in BOOLEAN :
          ExecutePipe(string, ok1, ok2)
    \/ \E string \in TypedPool, tx_active \in BOOLEAN :
          ExecuteIpc(string, tx_active)

SpecSubmit == InitSubmit /\ [][NextSubmit]_vars

---------------------------------------------------------------------------
(* Claims about the submission.                                            *)

\* The number of bytes escape-processing stores for a typed string: its
\* characters without the backslashes that only introduce an escape.
RECURSIVE StagedLength(_, _)
StagedLength(string, is_escaped) ==
    IF string = <<>> THEN 0
    ELSE LET c == Head(string)[1]
             n == Head(string)[2]
         IN  IF c # Backslash THEN n + StagedLength(Tail(string), FALSE)
             ELSE IF is_escaped
                 THEN 1 + StagedLength(
                          IF n = 1 THEN Tail(string)
                          ELSE <<<<c, n - 1>>>> \o Tail(string), FALSE)
             ELSE StagedLength(
                      IF n = 1 THEN Tail(string)
                      ELSE <<<<c, n - 1>>>> \o Tail(string), TRUE)

\* C6: a packet written by execute(pipe, string) has a length prefix equal
\* to the number of payload bytes, at most 65535, and a payload ending in
\* NUL.
C6_PrefixIsPayloadLength ==
    (cmd_op = "execute_pipe" /\ Len(cmd_writes) = 2) =>
        /\ buffer_to_int(cmd_writes[1]) = BLen(cmd_writes[2])
        /\ BLen(cmd_writes[2]) <= U16Mod - 1
        /\ BAt(cmd_writes[2], BLen(cmd_writes[2]) - 1) = Nul

\* Escape-processing overflows the staging buffer, or stages nothing.
Malformed(string) ==
    \/ StagedLength(string, FALSE) > StorageSize - 1
    \/ StagedLength(string, FALSE) = 0

\* C7: for a typed string whose escape-processing overflows the staging
\* buffer or yields an empty blob, execute returns failure on both paths,
\* writes nothing to the pipe and posts no send.
C7_MalformedSendsNothing ==
    (cmd_op \in {"execute_pipe", "execute_ipc"} /\ Malformed(cmd_string)) =>
        /\ cmd_ret = "failure"
        /\ cmd_writes = <<>>
        /\ cmd_post = <<>>

C7_Witness ==
    /\ cmd_op = "execute_pipe"
    /\ StagedLength(cmd_string, FALSE) > StorageSize - 1
    /\ cmd_ret = "failure"
    /\ cmd_writes = <<>>

---------------------------------------------------------------------------
(* execution.cc: the executor pipe.  write() and read() follow POSIX: a    *)
(* write of at most PIPE_BUF bytes is atomic and waits for room for all of *)
(* it, a longer write puts what fits and waits to put the rest; a read     *)
(* returns what is there, up to the count asked for, and waits only on an  *)
(* empty pipe.                                                             *)

PipeBuf      == 4 * 1024
PipeCapacity == 64 * 1024

\* The number of bytes of `buf` a writer blocked in write() can put now.
pipe_write(p, buf) ==
    LET n == BLen(buf)
        room == PipeCapacity - BLen(p)
    IN  IF n <= PipeBuf THEN (IF room >= n THEN n ELSE 0)
        ELSE IF n <= room THEN n ELSE room

\* The bytes one read() of `count` bytes returns: what is in the pipe, up to
\* `count` (nothing at the end of the file).
pipe_read(p, count) == BTake(p, count)

\* A faulty variant: end-of-file is taken for a read of a packet.
read_pipe_past_eof(got, count) == TRUE

\* read_pipe: any read that returns at least one byte is a success; a read
\* that returns nothing has met the end of the file.
read_pipe(got, count) == BLen(got) # 0

---------------------------------------------------------------------------
(* execution.cc: run_executor_process, the executor's side.                *)

\* The index of the first NUL of s at or after index `from` (strlen).
RECURSIVE BIndexNul(_, _, _)
BIndexNul(s, from, base) ==
    LET c == Head(s)[1]
        n == Head(s)[2]
    IN  IF from >= n THEN BIndexNul(Tail(s), from - n, base + n)
        ELSE IF c = Nul THEN base + from
        ELSE BIndexNul(Tail(s), 0, base + n)

\* std::size(argument_storage) - 1
MaxArguments == 255

\* The loop that fills `arguments` from the packet storage.
RECURSIVE arguments_loop(_, _, _, _)
arguments_loop(storage, size, offset, count) ==
    IF count = MaxArguments THEN <<>>
    ELSE LET end == BIndexNul(storage, offset, 0)
             argument == BTake(BDrop(storage, offset), end - offset)
         IN  <<argument>> \o
             (IF end + 1 = size THEN <<>>
              ELSE arguments_loop(storage, size, end + 1, count + 1))

arguments(storage, size) == arguments_loop(storage, size, 0, 0)

\* A faulty variant: the launcher child waits for the program it started.
launcher_waits_for_target(ts) ==
    \A i \in DOMAIN ts : ts[i].parent = "launcher" => ts[i].state = "exited"

\* The launcher child calls std::exit right after the second fork.
launcher_may_exit(ts) == TRUE

---------------------------------------------------------------------------
(* The executor specification: the parent submits typed strings through    *)
(* execute(pipe, string), the executor reads and launches them.            *)

MaxSubmits == 2

\* The typed strings: "a", "a a", and 65534 times "a" (the longest command
\* whose packet is well-formed).
ExecTypedShort == {Runs(<<97>>), Runs(<<97, Space, 97>>)}
ExecTyped == ExecTypedShort \cup {<<<<97, StorageSize - 2>>>>}

InitExec ==
    /\ dbIdle
    /\ cmdIdle
    /\ startIdle
    /\ clockIdle
    /\ statusIdle
    /\ ipcIdle
    /\ pipe = <<>>
    /\ par_pc = "idle"
    /\ par_buf = <<>>
    /\ par_cmd = <<>>
    /\ wr_open = TRUE
    /\ accepted = <<>>
    /\ ex_pc = "read_size"
    /\ packet_size = 0
    /\ packet_storage = <<<<Nul, StorageSize>>>>
    /\ la_pc = "none"
    /\ la_argv = <<>>
    /\ targets = <<>>
    /\ launched = <<>>
    /\ executor_fds = {"read"}
    /\ launcher_fds = {}
    /\ target_fds = <<>>

\* execute(pipe, string) up to its first write().
PExecute(string) ==
    /\ par_pc = "idle"
    /\ Len(accepted) < MaxSubmits
    /\ LET r == execute_pipe(string, TRUE, TRUE)
       IN  /\ r.writes # <<>>
           /\ par_pc' = "write_size"
           /\ par_buf' = r.writes[1]
           /\ par_cmd' = r.writes[2]
           /\ accepted' = Append(accepted, r.writes[2])
    /\ UNCHANGED <<pipe, wr_open, exVars, notExec>>

\* write_pipe: the write() in progress puts bytes into the pipe.
PWrite ==
    /\ par_pc \in {"write_size", "write_cmd"}
    /\ ex_pc # "exited"
    /\ LET k == pipe_write(pipe, par_buf)
       IN  /\ (k > 0 \/ par_buf = <<>>)
           /\ pipe' = BCat(pipe, BTake(par_buf, k))
           /\ IF k < BLen(par_buf)
                  THEN /\ par_buf' = BDrop(par_buf, k)
                       /\ UNCHANGED <<par_pc, par_cmd>>
              ELSE IF par_pc = "write_size"
                  THEN /\ par_pc' = "write_cmd"
                       /\ par_buf' = par_cmd
                       /\ par_cmd' = <<>>
              ELSE /\ par_pc' = "idle"
                   /\ par_buf' = <<>>
                   /\ par_cmd' = <<>>
    /\ UNCHANGED <<wr_open, accepted, exVars, notExec>>

\* The parent exits: the write end of the pipe is closed.
ParentExit ==
    /\ par_pc = "idle"
    /\ par_pc' = "exited"
    /\ wr_open' = FALSE
    /\ UNCHANGED <<pipe, par_buf, par_cmd, accepted, exVars, notExec>>

\* fork(): the child starts with a copy of its parent's descriptors.
fork_fds(fds) == fds

executor_close_nothing(fds) == fds

\* The executor's first step after the fork: close(pipe_fds[1]).
executor_close(fds) == fds \ {"write"}

launcher_close_nothing(fds) == fds

\* The launcher child's first step after the fork: close(pipe_fds[0]).
launcher_close(fds) == fds \ {"read"}

\* Some process holds the write end of the pipe: a read of the empty pipe
\* blocks; with no such process it returns 0, the end of the file.
write_end_open ==
    \/ wr_open
    \/ "write" \in executor_fds
    \/ "write" \in launcher_fds
    \/ \E i \in DOMAIN target_fds : "write" \in target_fds[i]

\* The executor reads the packet size.
EReadSize ==
    /\ ex_pc = "read_size"
    /\ ~(pipe = <<>> /\ write_end_open)
    /\ LET got == pipe_read(pipe, 2)
       IN  /\ pipe' = BDrop(pipe, BLen(got))
           /\ IF ~read_pipe(got, 2)
                  THEN /\ ex_pc' = "exited"
                       /\ executor_fds' = {}
                       /\ UNCHANGED packet_size
                  ELSE /\ packet_size' = buffer_to_int(got)
                       /\ ex_pc' = IF buffer_to_int(got) = 0
                                       THEN "read_size" ELSE "read_cmd"
                       /\ UNCHANGED executor_fds
    /\ UNCHANGED <<packet_storage, la_pc, la_argv, targets, launched,
                   launcher_fds, target_fds>>
    /\ UNCHANGED <<par_pc, par_buf, par_cmd, wr_open, accepted, notExec>>

\* The executor reads the command and, when it ends in NUL, forks the
\* launcher child, which starts with a copy of the packet storage.
EReadCmd ==
    /\ ex_pc = "read_cmd"
    /\ ~(pipe = <<>> /\ write_end_open)
    /\ \E got \in {pipe_read(pipe, packet_size)} :
       \E storage \in {BCat(got, BDrop(packet_storage, BLen(got)))} :
           /\ pipe' = BDrop(pipe, BLen(got))
           /\ packet_storage' = storage
           /\ IF ~read_pipe(got, packet_size)
                  THEN /\ ex_pc' = "exited"
                       /\ executor_fds' = {}
                       /\ UNCHANGED <<la_pc, la_argv, launcher_fds>>
              ELSE IF BAt(storage, packet_size - 1) # Nul
                  THEN /\ ex_pc' = "read_size"
                       /\ UNCHANGED <<la_pc, la_argv, executor_fds,
                                      launcher_fds>>
              ELSE /\ ex_pc' = "wait"
                   /\ la_pc' = "start"
                   /\ la_argv' = arguments(storage, packet_size)
                   /\ launcher_fds' = fork_fds(executor_fds)
                   /\ UNCHANGED executor_fds
    /\ UNCHANGED <<packet_size, targets, launched, target_fds>>
    /\ UNCHANGED <<par_pc, par_buf, par_cmd, wr_open, accepted, notExec>>

\* The launcher child closes the read end of the pipe and forks for the
\* second time; the new process, which starts with the launcher's
\* descriptors, is to call setsid and execvp.
LSecondFork ==
    /\ la_pc = "start"
    /\ la_pc' = "forked"
    /\ targets' = Append(targets, [state |-> "exec", parent |-> "launcher"])
    /\ launched' = Append(launched, la_argv)
    /\ launcher_fds' = launcher_close(launcher_fds)
    /\ target_fds' = Append(target_fds, fork_fds(launcher_close(launcher_fds)))
    /\ UNCHANGED <<ex_pc, packet_size, packet_storage, la_argv, executor_fds>>
    /\ UNCHANGED <<parVars, notExec>>

\* The launcher child exits; its children are orphaned.
LExit ==
    /\ la_pc = "forked"
    /\ launcher_may_exit(targets)
    /\ la_pc' = "zombie"
    /\ targets' = [i \in DOMAIN targets |->
                      IF targets[i].parent = "launcher"
                          THEN [targets[i] EXCEPT !.parent = "init"]
                          ELSE targets[i]]
    /\ launcher_fds' = {}
    /\ UNCHANGED <<ex_pc, packet_size, packet_storage, la_argv, launched,
                   executor_fds, target_fds>>
    /\ UNCHANGED <<parVars, notExec>>

\* waitpid returns for the launcher child.
EWait ==
    /\ ex_pc = "wait"
    /\ la_pc = "zombie"
    /\ la_pc' = "none"
    /\ la_argv' = <<>>
    /\ ex_pc' = "read_size"
    /\ UNCHANGED <<packet_size, packet_storage, targets, launched,
                   executor_fds, launcher_fds, target_fds>>
    /\ UNCHANGED <<parVars, notExec>>

\* execvp in the grandchild: the program runs, or, when execvp fails, the
\* grandchild goes on to std::exit.
TExec(i, ok) ==
    /\ targets[i].state = "exec"
    /\ targets' = [targets EXCEPT ![i].state =
                      IF ok THEN "running" ELSE "exited"]
    /\ target_fds' = [target_fds EXCEPT ![i] = IF ok THEN @ ELSE {}]
    /\ UNCHANGED <<ex_pc, packet_size, packet_storage, la_pc, la_argv,
                   launched, executor_fds, launcher_fds>>
    /\ UNCHANGED <<parVars, notExec>>

\* A launched program ends.
TExit(i) ==
    /\ targets[i].state = "running"
    /\ targets' = [targets EXCEPT ![i].state = "exited"]
    /\ target_fds' = [target_fds EXCEPT ![i] = {}]
    /\ UNCHANGED <<ex_pc, packet_size, packet_storage, la_pc, la_argv,
                   launched, executor_fds, launcher_fds>>
    /\ UNCHANGED <<parVars, notExec>>

ExecutorSteps ==
    \/ PWrite
    \/ ParentExit
    \/ EReadSize
    \/ EReadCmd
    \/ LSecondFork
    \/ LExit
    \/ EWait
    \/ \E i \in DOMAIN targets, ok \in BOOLEAN : TExec(i, ok)
    \/ \E i \in DOMAIN targets : TExit(i)

NextExec ==
    \/ \E string \in ExecTyped : PExecute(string)
    \/ ExecutorSteps

SpecExec == InitExec /\ [][NextExec]_vars

---------------------------------------------------------------------------
(* Claims about the executor pipe.                                         *)

\* The NUL-separated strings of a payload, in order.
RECURSIVE SplitNul(_, _)
SplitNul(s, cur) ==
    IF s = <<>> THEN (IF cur = <<>> THEN <<>> ELSE <<cur>>)
    ELSE IF Head(s)[1] # Nul
        THEN SplitNul(Tail(s), BCat(cur, <<Head(s)>>))
    ELSE <<cur>> \o [i \in 1..(Head(s)[2] - 1) |-> <<>>]
         \o SplitNul(Tail(s), <<>>)

ExpectedArgv(payload) ==
    LET all == SplitNul(payload, <<>>)
    IN  SubSeq(all, 1, IF Len(all) < MaxArguments THEN Len(all)
                       ELSE MaxArguments)

\* Nothing is in transit and nobody is in the middle of a step.
ExecQuiescent ==
    /\ par_pc \in {"idle", "exited"}
    /\ pipe = <<>>
    /\ ex_pc \in {"read_size", "exited"}
    /\ la_pc = "none"

\* C4: the launches are, in order, the argv lists of the payloads whose
\* submission returned success: one launch per packet, each with the
\* NUL-separated strings of its payload, however the pipe splits the bytes.
C4_LaunchPerPacket ==
    /\ Len(launched) <= Len(accepted)
    /\ \A i \in DOMAIN launched :
           i <= Len(accepted) => launched[i] = ExpectedArgv(accepted[i])
    /\ ExecQuiescent => Len(launched) = Len(accepted)

---------------------------------------------------------------------------
(* The executor under arbitrary packets: besides execute(pipe, string),    *)
(* the holder of the pipe's write end writes packets that execute never    *)
(* builds: a zero-length one, and ones whose payload does not end in NUL.  *)

RawPackets ==
    { <<>>,
      <<<<97, 1>>>>,
      <<<<97, U16Mod - 1>>>> }

\* A packet with the given payload is written as execute writes its own:
\* the two-byte size, then the payload.
PRaw(payload) ==
    /\ par_pc = "idle"
    /\ Len(accepted) < MaxSubmits
    /\ par_pc' = "write_size"
    /\ par_buf' = int_to_buffer(BLen(payload))
    /\ par_cmd' = payload
    /\ accepted' = Append(accepted, payload)
    /\ UNCHANGED <<pipe, wr_open, exVars, notExec>>

NextExecRaw ==
    \/ \E string \in ExecTypedShort : PExecute(string)
    \/ \E payload \in RawPackets : PRaw(payload)
    \/ ExecutorSteps

SpecExecRaw == InitExec /\ [][NextExecRaw]_vars

\* A payload the executor is to launch: not empty, and ending in NUL.
WellFormed(payload) ==
    /\ payload # <<>>
    /\ BAt(payload, BLen(payload) - 1) = Nul

WellFormedWritten == SelectSeq(accepted, WellFormed)

\* C5: a packet with a zero-length payload, or with a payload that does not
\* end in NUL, launches nothing and does not end the executor loop: the
\* launches are exactly those of the well-formed packets, in order, and the
\* executor runs as long as the write end is open.
C5_MalformedSkipped ==
    /\ wr_open => ex_pc # "exited"
    /\ Len(launched) <= Len(WellFormedWritten)
    /\ \A i \in DOMAIN launched :
           i <= Len(WellFormedWritten)
               => launched[i] = ExpectedArgv(WellFormedWritten[i])
    /\ ExecQuiescent => Len(launched) = Len(WellFormedWritten)

---------------------------------------------------------------------------
(* The executor with the scheduling of the launcher child: a process that  *)
(* can take a step eventually takes it.  Nothing is assumed of the parent, *)
(* of the pipe, or of the launched programs.                               *)

SpecExecLive ==
    /\ InitExec
    /\ [][NextExec]_vars
    /\ WF_vars(LSecondFork)
    /\ WF_vars(LExit)
    /\ WF_vars(EWait)

\* C10: while it runs a packet the executor has one child, the launcher,
\* and no child once the wait is over; the launched programs are never
\* its children; and the wait always ends, whatever the launched program
\* does (it need not exec, and it need not end).
C10_WaitsOnlyForLauncher ==
    /\ [](ex_pc = "wait" => la_pc # "none")
    /\ [](ex_pc # "wait" => la_pc = "none")
    /\ [](\A i \in DOMAIN targets : targets[i].parent # "executor")
    /\ [](Len(targets) = Len(launched))
    /\ (ex_pc = "wait") ~> (ex_pc = "read_size")

\* C10 witness: the executor is back at reading the next packet while a
\* program it launched is still running, as a child of init.
C10_Witness ==
    /\ ex_pc = "read_size"
    /\ la_pc = "none"
    /\ \E i \in DOMAIN targets :
           targets[i].state = "running" /\ targets[i].parent = "init"

---------------------------------------------------------------------------
(* ipc.cc: the IPC client.  The I/O thread runs one handler at a time:     *)
(* each action below is the run of a coroutine from one suspension point   *)
(* to the next.  An asynchronous write puts its bytes on the connection    *)
(* when it is started, if the socket is connected; the routine that        *)
(* started it goes on when the completion handler runs, which is any time  *)
(* later.  The consumer thread calls execute(ipc_client, string) and       *)
(* stop() at any time.                                                     *)

MaxCalls == 2

\* The server sends a further packet as long as fewer than MaxEvents events
\* have been posted.
MaxEvents == 2

\* The string typed at the privileged prompt: "a".
IpcTyped == {Runs(<<97>>)}

\* The packet that selects the protocol variant.
Handshake(ch) == Runs(<<1, 0, IF ch = "dispatch" THEN 2 ELSE 3>>)

\* buffer<64>{code}: the code and 63 zero bytes.
CommandSize == 64
ipc_command(code) == Norm(<<<<code, 1>>, <<0, CommandSize - 1>>>>)

\* command_map, as the sequence of the events posted for one command.
command_map(command) ==
    IF command = ipc_command(0) THEN <<"prompt_normal">>
    ELSE IF command = ipc_command(1) THEN <<"prompt_privileged">>
    ELSE IF command = ipc_command(2) THEN <<"reload_database">>
    ELSE <<>>

\* The number of whole commands at the start of the packet that lie in its
\* first run of equal bytes, or 1: these commands are equal.
equal_commands(packet) ==
    IF Head(packet)[2] >= CommandSize
        THEN Head(packet)[2] \div CommandSize ELSE 1

\* A faulty variant: what is left of the packet is taken for a command.
RECURSIVE process_packet_dispatcher_partial(_)
process_packet_dispatcher_partial(packet) ==
    IF packet = <<>> THEN <<>>
    ELSE IF BLen(packet) < CommandSize
        THEN command_map(BCat(packet,
                              <<<<0, CommandSize - BLen(packet)>>>>))
    ELSE LET pushed == command_map(BTake(packet, CommandSize))
             n == equal_commands(packet)
         IN  [k \in 1..(n * Len(pushed)) |-> pushed[1]]
             \o process_packet_dispatcher_partial(
                    BDrop(packet, n * CommandSize))

\* process_packet of run_dispatcher_client: the events it pushes, in order.
\* The commands of a run of equal bytes are processed in one step.
RECURSIVE process_packet_dispatcher(_)
process_packet_dispatcher(packet) ==
    IF BLen(packet) < CommandSize THEN <<>>
    ELSE LET pushed == command_map(BTake(packet, CommandSize))
             n == equal_commands(packet)
         IN  [k \in 1..(n * Len(pushed)) |-> pushed[1]]
             \o process_packet_dispatcher(BDrop(packet, n * CommandSize))

\* A faulty variant: the server state is taken as one byte shorter.
data_sizes_short == <<4, 1, 1, 1, 5, 5, 5, 5>>

\* A faulty variant: a ninth type, of one byte, is known.
data_sizes_nine == <<5, 1, 1, 1, 5, 5, 5, 5, 1>>

\* A faulty variant: a keymap message has no size.
data_sizes_empty_keymap == <<5, 0, 1, 1, 5, 5, 5, 5>>

\* The sizes of the status messages, type byte included, by type.
data_sizes == <<5, 1, 1, 1, 5, 5, 5, 5>>

status_type_theme == 3

\* A faulty variant: the messages after a theme message are processed too.
\* The messages that lie in the packet's first run of equal bytes and are
\* of a type other than theme are stepped over at once.
RECURSIVE process_packet_status_no_break(_)
process_packet_status_no_break(packet) ==
    IF packet = <<>> THEN <<>>
    ELSE LET type == BAt(packet, 0)
         IN  IF type < Len(data_sizes)
                 THEN LET size == data_sizes[type + 1]
                          run == Head(packet)[2]
                          n == IF BLen(packet) < size THEN BLen(packet)
                               ELSE IF type # status_type_theme /\ run >= size
                                   THEN (run \div size) * size
                               ELSE size
                      IN  (IF type = status_type_theme
                               THEN <<"reload_theme">> ELSE <<>>)
                          \o process_packet_status_no_break(BDrop(packet, n))
                 ELSE <<>>

\* process_packet of run_status_client: the events it pushes.
RECURSIVE process_packet_status(_)
process_packet_status(packet) ==
    IF packet = <<>> THEN <<>>
    ELSE LET type == BAt(packet, 0)
         IN  IF type < Len(data_sizes)
                 THEN IF type = status_type_theme
                          THEN <<"reload_theme">>
                          ELSE process_packet_status(
                                   BDrop(packet,
                                         IF BLen(packet) < data_sizes[type + 1]
                                             THEN BLen(packet)
                                             ELSE data_sizes[type + 1]))
                 ELSE <<>>

process_packet(ch, packet) ==
    IF ch = "dispatch" THEN process_packet_dispatcher(packet)
    ELSE process_packet_status(packet)

\* A faulty variant: the new events are put before the ones in the queue.
SDL_PushEvent_front(queue, pushed) == pushed \o queue

\* SDL_PushEvent, for the events of one packet.
SDL_PushEvent(queue, pushed) == queue \o pushed

\* A faulty variant: the status routine uses the socket of the client's data.
socket_of_shared(ch) == "dispatch"

\* The socket a client routine uses: data.socket for the dispatcher, a
\* local socket for the status routine.
socket_of(ch) == ch

\* The try block is left: the status routine's local socket is destroyed,
\* which closes it; data.socket stays as it is.
leave_try(ch, sockets) ==
    IF ch = "status" THEN [sockets EXCEPT ![socket_of(ch)] = "unconnected"]
    ELSE sockets

\* The sizes of the packets the server sends while requests are made: one
\* that fills the packet storage, and one that does not fit in it.
PacketSizes == {IpcStorageSize, IpcStorageSize + 1}

\* The packet of that size: no command and no status message is in it.
QuietPackets(size) == {<<<<255, size>>>>}

\* A send routine between its exchange(true) and its is_tx_active = false.
ActivePcs == {"write_size", "write_data"}

\* A faulty variant: a client routine that ends is never started again.
restart_never(running) == "done"

\* The end of run_dispatcher_client and run_status_client: the routine is
\* spawned again, with a delay, if the program is running.
restart(running) == IF running THEN "timer" ELSE "done"

\* context.run() runs handlers until stop() is called; the handler that is
\* running at that moment is completed, and run() returns.
io_runs(c) == c \in {"run", "stopping"}

\* A faulty variant: after stop() the handlers are run as before.
after_handler_goes_on(c) == c

after_handler(c) == IF c = "stopping" THEN "stopped" ELSE c

InitIpc ==
    /\ dbIdle
    /\ cmdIdle
    /\ startIdle
    /\ clockIdle
    /\ statusIdle
    /\ execIdle
    /\ is_program_running = TRUE
    /\ context = "run"
    /\ endpoint \in {"set", "unset"}
    /\ is_tx_active = FALSE
    /\ socket = [ch \in Channels |-> "unconnected"]
    /\ wire = [ch \in Channels |-> <<>>]
    /\ client_pc = [ch \in Channels |-> "start"]
    /\ attempts = [ch \in Channels |-> "none"]
    /\ ipc_packet_size = [ch \in Channels |-> 0]
    /\ ipc_packet = [ch \in Channels |-> <<>>]
    /\ events = <<>>
    /\ senders = <<>>
    /\ calls = <<>>

\* The timer has expired (or dt is 0): a new socket replaces the old one,
\* which cancels what is pending on it, and async_connect is started.  The
\* start calls connect(), which makes the connection or fails; the routine
\* goes on when the completion handler runs.
ConnectStart(ch, ok) ==
    /\ io_runs(context)
    /\ client_pc[ch] \in {"start", "timer"}
    /\ ok => endpoint = "set"
    /\ context' = after_handler(context)
    /\ client_pc' = [client_pc EXCEPT ![ch] = "connect"]
    /\ socket' = [socket EXCEPT ![socket_of(ch)] =
                     IF ok THEN "connected" ELSE "unconnected"]
    /\ wire' = [wire EXCEPT ![socket_of(ch)] = <<>>]
    /\ attempts' = [attempts EXCEPT ![ch] =
                       IF client_pc[ch] = "timer" THEN "again" ELSE "first"]
    /\ senders' = IF socket_of(ch) = "dispatch"
                      THEN [i \in DOMAIN senders |->
                               IF senders[i].pc \in ActivePcs
                                   THEN [senders[i] EXCEPT !.failed = TRUE]
                                   ELSE senders[i]]
                      ELSE senders
    /\ UNCHANGED <<is_program_running, endpoint, is_tx_active,
                   ipc_packet_size, ipc_packet, events, calls, notClient>>

\* The step where the passing of time is left out: a timer expires at
\* any moment.
ClientConnectStart(ch, ok) == ConnectStart(ch, ok) /\ UNCHANGED clockVars

\* The completion handler of async_connect runs: if the connection was
\* made, the write of the handshake starts.
Connected(ch) ==
    /\ io_runs(context)
    /\ client_pc[ch] = "connect"
    /\ context' = after_handler(context)
    /\ IF socket[socket_of(ch)] # "unconnected"
           THEN /\ client_pc' = [client_pc EXCEPT ![ch] = "handshake"]
                /\ wire' = IF socket[socket_of(ch)] = "connected"
                               THEN [wire EXCEPT ![socket_of(ch)] =
                                        Append(@, <<0, Handshake(ch)>>)]
                               ELSE wire
                /\ UNCHANGED socket
           ELSE /\ client_pc' = [client_pc EXCEPT
                                    ![ch] = restart(is_program_running)]
                /\ socket' = leave_try(ch, socket)
                /\ UNCHANGED wire
    /\ UNCHANGED <<is_program_running, endpoint, is_tx_active, attempts,
                   ipc_packet_size, ipc_packet, events, senders, calls,
                   notClient>>

ClientConnected(ch) == Connected(ch) /\ UNCHANGED clockVars

\* The write of the handshake completes.  The dispatcher then clears
\* is_tx_active; the packet storage is constructed and the read of the
\* first size starts.
HandshakeDone(ch, ok) ==
    /\ io_runs(context)
    /\ client_pc[ch] = "handshake"
    /\ ~ok => socket[socket_of(ch)] = "broken"
    /\ context' = after_handler(context)
    /\ IF ok
           THEN /\ client_pc' = [client_pc EXCEPT ![ch] = "read_size"]
                /\ is_tx_active' = IF ch = "dispatch" THEN FALSE
                                   ELSE is_tx_active
                /\ UNCHANGED socket
           ELSE /\ client_pc' = [client_pc EXCEPT
                                    ![ch] = restart(is_program_running)]
                /\ socket' = leave_try(ch, socket)
                /\ UNCHANGED is_tx_active
    /\ UNCHANGED <<is_program_running, endpoint, wire, attempts,
                   ipc_packet_size, ipc_packet, events, senders, calls,
                   notClient>>

ClientHandshakeDone(ch, ok) == HandshakeDone(ch, ok) /\ UNCHANGED clockVars

\* The size of a packet has been read: a size above the storage's ends the
\* loop, and with it the packet storage.
ReadSize(ch, size) ==
    /\ io_runs(context)
    /\ client_pc[ch] = "read_size"
    /\ socket[socket_of(ch)] = "connected"
    /\ Len(events) < MaxEvents
    /\ context' = after_handler(context)
    /\ IF size > IpcStorageSize
           THEN /\ client_pc' = [client_pc EXCEPT
                                    ![ch] = restart(is_program_running)]
                /\ socket' = leave_try(ch, socket)
                /\ ipc_packet_size' = [ipc_packet_size EXCEPT ![ch] = 0]
                /\ ipc_packet' = [ipc_packet EXCEPT ![ch] = <<>>]
           ELSE /\ client_pc' = [client_pc EXCEPT ![ch] = "read_data"]
                /\ ipc_packet_size' = [ipc_packet_size EXCEPT ![ch] = size]
                /\ UNCHANGED <<socket, ipc_packet>>
    /\ UNCHANGED <<is_program_running, endpoint, is_tx_active, wire,
                   attempts, events, senders, calls, notClient>>

ClientReadSize(ch, size) == ReadSize(ch, size) /\ UNCHANGED clockVars

\* The data of a packet has been read: the packet is processed, and the
\* read of the next size starts.
ClientReadData(ch, packet) ==
    /\ io_runs(context)
    /\ client_pc[ch] = "read_data"
    /\ socket[socket_of(ch)] = "connected"
    /\ BLen(packet) = ipc_packet_size[ch]
    /\ context' = after_handler(context)
    /\ client_pc' = [client_pc EXCEPT ![ch] = "read_size"]
    /\ ipc_packet' = [ipc_packet EXCEPT ![ch] = packet]
    /\ events' = SDL_PushEvent(events, process_packet(ch, packet))
    /\ UNCHANGED <<is_program_running, endpoint, is_tx_active, socket, wire,
                   attempts, ipc_packet_size, senders, calls, notIpc>>

\* A read fails: the connection has ended.
ReadFail(ch) ==
    /\ io_runs(context)
    /\ client_pc[ch] \in {"read_size", "read_data"}
    /\ socket[socket_of(ch)] # "connected"
    /\ context' = after_handler(context)
    /\ client_pc' = [client_pc EXCEPT ![ch] = restart(is_program_running)]
    /\ socket' = leave_try(ch, socket)
    /\ ipc_packet_size' = [ipc_packet_size EXCEPT ![ch] = 0]
    /\ ipc_packet' = [ipc_packet EXCEPT ![ch] = <<>>]
    /\ UNCHANGED <<is_program_running, endpoint, is_tx_active, wire,
                   attempts, events, senders, calls, notClient>>

ClientReadFail(ch) == ReadFail(ch) /\ UNCHANGED clockVars

\* The server closes a connection (of a client that is still served).
PeerClose(ch) ==
    /\ context = "run"
    /\ socket[ch] = "connected"
    /\ socket' = [socket EXCEPT ![ch] = "broken"]
    /\ UNCHANGED <<is_program_running, context, endpoint, is_tx_active,
                   wire, client_pc, attempts, ipc_packet_size, ipc_packet,
                   events, senders, calls, notIpc>>

\* The consumer thread: execute(ipc_client, string).  `in_flight` records
\* whether a send routine was transmitting at the time of the call.
RequestExecution(string) ==
    /\ is_program_running
    /\ context = "run"
    /\ Len(calls) < MaxCalls
    /\ LET r == execute_ipc(is_tx_active, string)
       IN  /\ calls' = Append(calls,
                  [ret       |-> r.ret,
                   in_flight |-> \E i \in DOMAIN senders :
                                     senders[i].pc \in ActivePcs])
           /\ senders' = IF r.post = <<>> THEN senders
                         ELSE Append(senders, [pc     |-> "posted",
                                               failed |-> FALSE,
                                               packet |-> r.post[1]])
    /\ UNCHANGED <<is_program_running, context, endpoint, is_tx_active,
                   socket, wire, client_pc, attempts, ipc_packet_size,
                   ipc_packet, events, notIpc>>

\* send_dispatcher_packet up to its first co_await: the exchange, and the
\* start of the write of the size.
SendStart(i) ==
    /\ io_runs(context)
    /\ senders[i].pc = "posted"
    /\ context' = after_handler(context)
    /\ IF is_tx_active
           THEN /\ senders' = [senders EXCEPT ![i].pc = "done"]
                /\ UNCHANGED <<is_tx_active, wire>>
           ELSE /\ is_tx_active' = TRUE
                /\ IF socket["dispatch"] = "connected"
                       THEN /\ wire' = [wire EXCEPT !["dispatch"] =
                                   Append(@, <<i, int_to_buffer(
                                       senders[i].packet.size % U16Mod)>>)]
                            /\ senders' =
                                   [senders EXCEPT ![i].pc = "write_size"]
                       ELSE /\ senders' =
                                   [senders EXCEPT ![i].pc = "write_size",
                                                   ![i].failed = TRUE]
                            /\ UNCHANGED wire
    /\ UNCHANGED <<is_program_running, endpoint, socket, client_pc,
                   attempts, ipc_packet_size, ipc_packet, events, calls,
                   notIpc>>

\* The write of the size completes: the write of the data starts, or the
\* exception is caught and the transmission ends.
SendSizeDone(i) ==
    /\ io_runs(context)
    /\ senders[i].pc = "write_size"
    /\ context' = after_handler(context)
    /\ IF senders[i].failed
           THEN /\ is_tx_active' = FALSE
                /\ senders' = [senders EXCEPT ![i].pc = "done"]
                /\ UNCHANGED wire
           ELSE /\ UNCHANGED is_tx_active
                /\ IF socket["dispatch"] = "connected"
                       THEN /\ wire' = [wire EXCEPT !["dispatch"] =
                                   Append(@, <<i, BTake(
                                       senders[i].packet.storage,
                                       senders[i].packet.size)>>)]
                            /\ senders' =
                                   [senders EXCEPT ![i].pc = "write_data"]
                       ELSE /\ senders' =
                                   [senders EXCEPT ![i].pc = "write_data",
                                                   ![i].failed = TRUE]
                            /\ UNCHANGED wire
    /\ UNCHANGED <<is_program_running, endpoint, socket, client_pc,
                   attempts, ipc_packet_size, ipc_packet, events, calls,
                   notIpc>>

\* The write of the data completes, or fails: the transmission ends.
SendDataDone(i) ==
    /\ io_runs(context)
    /\ senders[i].pc = "write_data"
    /\ context' = after_handler(context)
    /\ is_tx_active' = FALSE
    /\ senders' = [senders EXCEPT ![i].pc = "done"]
    /\ UNCHANGED <<is_program_running, endpoint, socket, wire, client_pc,
                   attempts, ipc_packet_size, ipc_packet, events, calls,
                   notIpc>>

\* The consumer thread, on SDL_QUIT: stop(ipc_client) ...
Stop ==
    /\ context = "run"
    /\ context' = "stopping"
    /\ UNCHANGED <<is_program_running, endpoint, is_tx_active, socket, wire,
                   client_pc, attempts, ipc_packet_size, ipc_packet, events,
                   senders, calls, notIpc>>

\* ... and then is_program_running = false (the I/O thread stores the same
\* once context.run() has returned).
ClearRunning ==
    /\ context \in {"stopping", "stopped"}
    /\ is_program_running
    /\ is_program_running' = FALSE
    /\ UNCHANGED <<context, endpoint, is_tx_active, socket, wire, client_pc,
                   attempts, ipc_packet_size, ipc_packet, events, senders,
                   calls, notIpc>>

\* context.run() returns after stop(): no handler was running, or the one
\* that was has been completed (the handlers above).
IoReturn ==
    /\ context = "stopping"
    /\ context' = "stopped"
    /\ UNCHANGED <<is_program_running, endpoint, is_tx_active, socket, wire,
                   client_pc, attempts, ipc_packet_size, ipc_packet, events,
                   senders, calls, notIpc>>

NextIpc ==
    \/ \E ch \in Channels, ok \in BOOLEAN : ClientConnectStart(ch, ok)
    \/ \E ch \in Channels : ClientConnected(ch)
    \/ \E ch \in Channels, ok \in BOOLEAN : ClientHandshakeDone(ch, ok)
    \/ \E ch \in Channels, size \in PacketSizes : ClientReadSize(ch, size)
    \/ \E ch \in Channels, packet \in QuietPackets(IpcStorageSize) :
           ClientReadData(ch, packet)
    \/ \E ch \in Channels : ClientReadFail(ch)
    \/ \E ch \in Channels : PeerClose(ch)
    \/ \E string \in IpcTyped : RequestExecution(string)
    \/ \E i \in DOMAIN senders : SendStart(i)
    \/ \E i \in DOMAIN senders : SendSizeDone(i)
    \/ \E i \in DOMAIN senders : SendDataDone(i)
    \/ Stop
    \/ ClearRunning
    \/ IoReturn

SpecIpc == InitIpc /\ [][NextIpc]_vars

\* The steps of one client routine and of its connection, with the packets
\* the server sends drawn from `sizes` and `packets`.
Channel(ch, sizes, packets) ==
    \/ \E ok \in BOOLEAN : ClientConnectStart(ch, ok)
    \/ ClientConnected(ch)
    \/ \E ok \in BOOLEAN : ClientHandshakeDone(ch, ok)
    \/ \E size \in sizes : ClientReadSize(ch, size)
    \/ \E packet \in packets : ClientReadData(ch, packet)
    \/ ClientReadFail(ch)
    \/ PeerClose(ch)

\* The two client routines without the send routines, which take no part
\* in the reconnection.
NextReconnect ==
    \/ \E ch \in Channels :
           Channel(ch, PacketSizes, QuietPackets(IpcStorageSize))
    \/ Stop
    \/ ClearRunning
    \/ IoReturn

\* The I/O thread runs the handlers that are ready: a timer that was set
\* expires, and a connection attempt ends, one way or the other.
SpecIpcLive ==
    /\ InitIpc
    /\ [][NextReconnect]_vars
    /\ \A ch \in Channels :
           /\ WF_vars(\E ok \in BOOLEAN : ClientConnectStart(ch, ok))
           /\ WF_vars(ClientConnected(ch))

---------------------------------------------------------------------------
(* Claims about the IPC client.                                            *)

\* C1: a call of request_execution made while an earlier request is in
\* flight (its routine has done the exchange and has not yet cleared the
\* flag) returns failure.
C1_SingleFlight ==
    \A c \in DOMAIN calls : calls[c].in_flight => calls[c].ret = "failure"

\* The places of sender i's packets on the dispatch connection.
WirePlaces(i) ==
    {k \in DOMAIN wire["dispatch"] : wire["dispatch"][k][1] = i}

\* C2: at most one send routine is between its exchange and its clearing
\* of the flag, and the packets of two requests are not interleaved on the
\* dispatch connection.
C2_OneTransmission ==
    /\ Cardinality({i \in DOMAIN senders : senders[i].pc \in ActivePcs}) <= 1
    /\ \A i \in DOMAIN senders :
           \A k1, k2 \in WirePlaces(i) :
               \A k \in k1..k2 : wire["dispatch"][k][1] = i

\* C3: on each channel a failed attempt or an ended connection is followed
\* by a new connection attempt, as long as the program is running and the
\* I/O context has not been stopped; a routine never ends for good while
\* the program is running; without an endpoint, and unless the I/O context
\* is stopped, the attempts fail and are repeated for ever.
C3_ReconnectLiveness ==
    \A ch \in Channels :
        /\ [](client_pc[ch] = "done" => ~is_program_running)
        /\ (client_pc[ch] = "timer")
               ~> (client_pc[ch] = "connect" \/ context = "stopped")
        /\ []<>(client_pc[ch] = "timer"
                   \/ endpoint = "set" \/ context = "stopped")
        /\ []<>(client_pc[ch] = "connect"
                   \/ endpoint = "set" \/ context = "stopped")

\* C3 witness: without an endpoint, both channels are at a connection
\* attempt that follows a failed one.
C3_Witness ==
    /\ endpoint = "unset"
    /\ \A ch \in Channels :
           client_pc[ch] = "connect" /\ attempts[ch] = "again"

---------------------------------------------------------------------------
(* The executor's shutdown.  A read() of the executor can also fail: with  *)
(* EINTR it is called again, with any other error read_pipe fails.  The    *)
(* executor and its launcher child take the steps they can take.           *)

ReadErrors == {"EINTR", "EIO"}

\* read() returns -1 in read_pipe.
EReadError(errno) ==
    /\ ex_pc \in {"read_size", "read_cmd"}
    /\ ex_pc' = IF errno = "EINTR" THEN ex_pc ELSE "exited"
    /\ executor_fds' = IF errno = "EINTR" THEN executor_fds ELSE {}
    /\ UNCHANGED <<packet_size, packet_storage, la_pc, la_argv, targets,
                   launched, launcher_fds, target_fds>>
    /\ UNCHANGED <<parVars, notExec>>

NextExecShutdown ==
    \/ NextExec
    \/ \E errno \in ReadErrors : EReadError(errno)

SpecExecShutdown ==
    /\ InitExec
    /\ [][NextExecShutdown]_vars
    /\ WF_vars(EReadSize)
    /\ WF_vars(EReadCmd)
    /\ WF_vars(LSecondFork)
    /\ WF_vars(LExit)
    /\ WF_vars(EWait)

\* C11: once the write end of the pipe is closed the executor eventually
\* exits; at the end of the file its read is its last step; and a read
\* error other than EINTR ends it at once.
C11_ExecutorShutdown ==
    /\ (~wr_open) ~> (ex_pc = "exited")
    /\ [][(ex_pc \in {"read_size", "read_cmd"} /\ pipe = <<>> /\ ~wr_open
              /\ ex_pc' # ex_pc) => ex_pc' = "exited"]_vars
    /\ [][(wr_open /\ ex_pc' = "exited" /\ ex_pc # "exited")
              => (ex_pc \in {"read_size", "read_cmd"}
                  /\ UNCHANGED <<pipe, packet_size, packet_storage>>)]_vars

\* C11 witness: the parent has exited, the executor has launched what was
\* in the pipe, met the end of the file, and exited.
C11_Witness ==
    /\ ~wr_open
    /\ ex_pc = "exited"
    /\ Len(launched) >= 1
    /\ Len(launched) = Len(accepted)

---------------------------------------------------------------------------
(* The bytes written on a connection.  In `wire` the writer of a packet is *)
(* 0 for the client routine and the number of the send routine otherwise.  *)

\* C12: on each connection of either channel the first bytes written are
\* the three bytes of the selector, 1 0 2 for the dispatcher and 1 0 3 for
\* the status routine, and every byte of a send routine comes after them.
C12_HandshakeFirst ==
    \A ch \in Channels :
        wire[ch] # <<>> =>
               /\ wire[ch][1] =
                      <<0, Runs(<<1, 0, IF ch = "dispatch" THEN 2 ELSE 3>>)>>
               /\ \A k \in 2..Len(wire[ch]) : wire[ch][k][1] # 0

\* C13: after a packet size above 8192 has been read on a channel, the
\* routine waits for its reconnect timer (or has ended, the program being
\* no longer running); until the next connection is started no packet is
\* read and nothing is written on the connection of that channel; a packet
\* of exactly 8192 bytes is read and processed.
C13_OversizedTeardown ==
    [][\A ch \in Channels :
          /\ (client_pc[ch] = "read_size" /\ socket[ch] = "connected"
                 /\ client_pc'[ch] # "read_size")
             => (client_pc'[ch] = "read_data"
                    \/ client_pc'[ch] = restart(is_program_running))
          /\ (client_pc[ch] = "read_data" /\ client_pc'[ch] = "read_size"
                 /\ ipc_packet_size[ch] = IpcStorageSize)
             => BLen(ipc_packet'[ch]) = IpcStorageSize
          /\ (client_pc[ch] \in {"timer", "done"}
                 /\ client_pc'[ch] = client_pc[ch])
             => (wire'[ch] = wire[ch]
                    /\ ipc_packet'[ch] = ipc_packet[ch])]_vars

---------------------------------------------------------------------------
(* The packets read on the two channels.                                   *)

\* A chunk that starts with the code of a command and is not that command.
NotACommand == Norm(<<<<1, 1>>, <<7, CommandSize - 1>>>>)

\* The packets the server sends on the dispatch channel: none of their
\* bytes; one command; a command, a chunk that is no command, a command and
\* ten further bytes; 63 zero bytes; and a packet of 8192 bytes, which
\* starts with a command.
DispatchPackets ==
    { <<>>,
      ipc_command(1),
      BCat(BCat(ipc_command(0), NotACommand),
           BCat(ipc_command(2), <<<<1, 10>>>>)),
      <<<<0, CommandSize - 1>>>>,
      BCat(ipc_command(1), <<<<255, IpcStorageSize - CommandSize>>>>) }

\* The packets the server sends on the status channel: none of their
\* bytes; a theme message; a keymap message, two theme messages and a
\* server state cut short; a server state whose data are threes, a control
\* scheme message, an unknown type and a theme message; an input device
\* message cut short after a 3; and a packet of 8192 bytes, which starts
\* with a theme message.
StatusPackets ==
    { <<>>,
      Runs(<<3>>),
      Runs(<<1, 3, 3, 0>>),
      Runs(<<0, 3, 3, 3, 3, 2, 9, 3>>),
      Runs(<<4, 3>>),
      BCat(Runs(<<3>>), <<<<0, IpcStorageSize - 1>>>>) }

ServerPackets(ch) ==
    IF ch = "dispatch" THEN DispatchPackets ELSE StatusPackets

\* The sizes the server sends: those of its packets, and one too large.
ServerSizes(ch) ==
    {BLen(packet) : packet \in ServerPackets(ch)} \cup {IpcStorageSize + 1}

NextChannels ==
    \/ \E ch \in Channels :
           Channel(ch, ServerSizes(ch), ServerPackets(ch))
    \/ Stop
    \/ ClearRunning
    \/ IoReturn

SpecChannels == InitIpc /\ [][NextChannels]_vars

\* The complete 64-byte chunks of a packet, in order.
Chunks(packet) ==
    [k \in 1..(BLen(packet) \div 64) |->
        BTake(BDrop(packet, 64 * (k - 1)), 64)]

\* The event of a chunk that is one of the codes 0, 1, 2 followed by 63
\* zero bytes; any other chunk has none.
ChunkEvent(chunk) ==
    IF chunk = <<<<0, 64>>>> THEN "prompt_normal"
    ELSE IF chunk = <<<<1, 1>>, <<0, 63>>>> THEN "prompt_privileged"
    ELSE IF chunk = <<<<2, 1>>, <<0, 63>>>> THEN "reload_database"
    ELSE "none"

\* The events of the claim for a packet of the dispatch channel.
CommandEvents(packet) ==
    SelectSeq([k \in DOMAIN Chunks(packet) |-> ChunkEvent(Chunks(packet)[k])],
              LAMBDA e : e # "none")

\* C14: the events posted for a packet read on the dispatch channel are,
\* in order, one for each complete 64-byte chunk that is a command code;
\* other chunks and what is left after the last complete chunk post
\* nothing.
C14_DispatchDecoding ==
    [][(client_pc["dispatch"] = "read_data"
           /\ client_pc'["dispatch"] = "read_size")
       => events' = events
                    \o CommandEvents(ipc_packet'["dispatch"])]_vars

\* C14 witness: the packet of three chunks and ten bytes has been
\* processed: two events were posted for it.
C14_Witness ==
    /\ BLen(ipc_packet["dispatch"]) = 3 * CommandSize + 10
    /\ client_pc["dispatch"] = "read_size"
    /\ events = <<"prompt_normal", "reload_database">>

\* Whether a theme message is reached in a status packet from index i on,
\* going from message to message by the sizes of the types.
RECURSIVE ThemeReached(_, _)
ThemeReached(packet, i) ==
    IF i >= BLen(packet) THEN FALSE
    ELSE IF BAt(packet, i) = 3 THEN TRUE
    ELSE IF BAt(packet, i) \in {0, 4, 5, 6, 7}
        THEN ThemeReached(packet, i + 5)
    ELSE IF BAt(packet, i) \in {1, 2} THEN ThemeReached(packet, i + 1)
    ELSE FALSE

\* C15: for a packet read on the status channel exactly one reload-theme
\* event is posted if a theme message is reached in it, and none
\* otherwise: what follows the first theme message posts nothing.
C15_StatusThemeOnce ==
    [][(client_pc["status"] = "read_data"
           /\ client_pc'["status"] = "read_size")
       => events' = events
                    \o (IF ThemeReached(ipc_packet'["status"], 0)
                            THEN <<"reload_theme">> ELSE <<>>)]_vars

\* C15 witness: the packet with two theme messages has been processed, and
\* one event was posted for it.
C15_Witness ==
    /\ ipc_packet["status"] = Runs(<<1, 3, 3, 0>>)
    /\ client_pc["status"] = "read_size"
    /\ events = <<"reload_theme">>

\* The events of the claims for a packet read on a channel, in the order
\* of its messages.
PacketEvents(ch, packet) ==
    IF ch = "dispatch" THEN CommandEvents(packet)
    ELSE IF ThemeReached(packet, 0) THEN <<"reload_theme">> ELSE <<>>

\* The events in the queue that come from a channel.
EventsOf(ch, queue) ==
    SelectSeq(queue, LAMBDA e : (e = "reload_theme") <=> (ch = "status"))

\* C16: the consumer's queue only grows at its end; the packet a channel
\* processes is the one whose size it has read last, and its events are
\* appended in the order of its messages; between the read of a packet's
\* size and its processing no event of that channel is posted.
C16_InOrder ==
    [][/\ \E pushed \in {SubSeq(events', Len(events) + 1, Len(events'))} :
              /\ events' = events \o pushed
              /\ \A ch \in Channels :
                     IF client_pc[ch] = "read_data"
                            /\ client_pc'[ch] = "read_size"
                         THEN /\ BLen(ipc_packet'[ch]) = ipc_packet_size[ch]
                              /\ pushed = PacketEvents(ch, ipc_packet'[ch])
                         ELSE EventsOf(ch, pushed) = <<>>
       ]_vars

\* C16 witness: two packets have been processed on the dispatch channel,
\* and the event of the first is before the two of the second.
C16_Witness ==
    /\ BLen(ipc_packet["dispatch"]) = 3 * CommandSize + 10
    /\ events = <<"prompt_privileged", "prompt_normal", "reload_database">>

\* C17: a step of one channel (of its routine or of its connection) leaves
\* the other channel's socket, the bytes written on it, its packet storage
\* and the position of its routine as they are; and a routine that has
\* read the size of a packet on its connection can always go on to process
\* the packet, whatever the state of the other channel.
C17_ChannelIndependence ==
    /\ [][\A a \in Channels : \A b \in Channels \ {a} :
              (client_pc'[a] # client_pc[a] \/ socket'[a] # socket[a])
              => /\ socket'[b] = socket[b]
                 /\ wire'[b] = wire[b]
                 /\ ipc_packet_size'[b] = ipc_packet_size[b]
                 /\ ipc_packet'[b] = ipc_packet[b]
                 /\ client_pc'[b] = client_pc[b]]_vars
    /\ [](\A ch \in Channels :
              (io_runs(context) /\ client_pc[ch] = "read_data"
                    /\ socket[ch] = "connected")
              => ENABLED (\E packet \in ServerPackets(ch) :
                              ClientReadData(ch, packet)))

\* C17 witness: the status routine waits for its reconnect timer, its
\* socket closed, while the dispatcher routine is about to process a
\* packet on its connection; and the other way round.
C17_Witness ==
    /\ client_pc["status"] = "timer"
    /\ socket["status"] = "unconnected"
    /\ client_pc["dispatch"] = "read_data"
    /\ socket["dispatch"] = "connected"
    /\ events # <<>>

\* context.run() returns once the handler that is running has ended.
SpecChannelsLive == SpecChannels /\ WF_vars(IoReturn)

\* C18 as stated: once stop() has been called and is_program_running is
\* false, no routine goes on from its timer or its read, no connection
\* attempt is started, and no event is posted.
C18_ShutdownQuiet ==
    [][(context # "run" /\ ~is_program_running)
       => (client_pc' = client_pc /\ attempts' = attempts
              /\ events' = events)]_vars

\* C18, amended: after stop() at most one handler, the one that was
\* running, is completed; context.run() then returns, so that the thread
\* ends; and after that no routine goes on from its timer or its read, no
\* connection attempt is started, nothing is written and no event is
\* posted.
C18_ShutdownQuietAfterReturn ==
    /\ [][context = "stopped"
           => UNCHANGED <<context, client_pc, attempts, socket, wire,
                          ipc_packet_size, ipc_packet, events>>]_vars
    /\ [][(context = "stopping"
              /\ (client_pc' # client_pc \/ events' # events))
           => context' = "stopped"]_vars
    /\ (context = "stopping") ~> (context = "stopped")

\* C18 witness: context.run() has returned and the flag is clear, with a
\* reconnect timer pending on one channel, a read pending on a live
\* connection of the other, and events posted before.
C18_Witness ==
    /\ context = "stopped"
    /\ ~is_program_running
    /\ \E a \in Channels : \E b \in Channels \ {a} :
           /\ client_pc[a] = "timer"
           /\ client_pc[b] = "read_size"
           /\ socket[b] = "connected"
    /\ events # <<>>

---------------------------------------------------------------------------
(* The rebuilds of the database.  PATH names the directories /a and /b,    *)
(* /b also with a trailing separator, a directory /c that does not exist,  *)
(* and an empty directory name; the directories hold up to MaxDirEntries   *)
(* of the files x and y, and change between the rebuilds.                  *)

MaxDirEntries == 2

DirB == <<Slash, 98>>
DirC == <<Slash, 99>>

EntryNames == {<<120>>, <<121>>}
EntryKinds == {"exec", "plain", "error"}

\* The listings of a directory: no two entries have the same name.
Listings ==
    {l \in UNION {[1..k -> [name : EntryNames, kind : EntryKinds]] :
                     k \in 0..MaxDirEntries} :
        \A i, j \in DOMAIN l : l[i].name = l[j].name => i = j}

\* The directories that exist, with their listings.
DirectoryStates ==
    UNION {[D -> Listings] : D \in SUBSET {Dir, DirB}}

\* The values of PATH: not set; empty; /a; /a:/b; /b/:/a; /c::/b:/a.
PathPool ==
    { Unset,
      <<>>,
      Dir,
      Dir \o <<Colon>> \o DirB,
      DirB \o <<Slash, Colon>> \o Dir,
      DirC \o <<Colon, Colon>> \o DirB \o <<Colon>> \o Dir }

\* The database as constructed: executables_database() calls initialize.
InitRebuild ==
    /\ env_path \in PathPool
    /\ directories \in DirectoryStates
    /\ LET db == initialize(env_path, directories, <<>>, {})
       IN  files_ = db.files_ /\ paths_ = db.paths_
    /\ db_op = "constructed"
    /\ db_input = <<>>
    /\ db_result = <<>>
    /\ db_shown = <<>>
    /\ cmdIdle
    /\ startIdle
    /\ clockIdle
    /\ statusIdle
    /\ execIdle
    /\ ipcIdle

\* Files of a directory are installed, removed or changed after the
\* database has been built.
ChangeDirectory(d, listing) ==
    /\ db_op # "changed"
    /\ d \in DOMAIN directories
    /\ directories[d] # listing
    /\ directories' = [directories EXCEPT ![d] = listing]
    /\ db_op' = "changed"
    /\ db_input' = <<>>
    /\ UNCHANGED <<env_path, files_, paths_, db_result, db_shown, notDb>>

\* A directory is created, empty, or removed.
ToggleDirectory(d) ==
    /\ db_op # "changed"
    /\ directories' =
           IF d \in DOMAIN directories
               THEN [e \in DOMAIN directories \ {d} |-> directories[e]]
           ELSE [e \in DOMAIN directories \cup {d} |->
                    IF e = d THEN <<>> ELSE directories[e]]
    /\ db_op' = "changed"
    /\ db_input' = <<>>
    /\ UNCHANGED <<env_path, files_, paths_, db_result, db_shown, notDb>>

\* The request reload_database: database.initialize().  db_input records
\* what the database held before the call.
Rebuild ==
    /\ LET db == initialize(env_path, directories, files_, paths_)
       IN  files_' = db.files_ /\ paths_' = db.paths_
    /\ db_op' = "initialize"
    /\ db_input' = <<files_, paths_>>
    /\ UNCHANGED <<env_path, directories, db_result, db_shown, notDb>>

NextRebuild ==
    \/ \E d \in {Dir, DirB}, listing \in Listings :
           ChangeDirectory(d, listing)
    \/ \E d \in {Dir, DirB} : ToggleDirectory(d)
    \/ Rebuild

SpecRebuild == InitRebuild /\ [][NextRebuild]_vars

\* The directory names of a search path, in order.
RECURSIVE SearchPath(_, _)
SearchPath(path, cur) ==
    IF path = <<>> THEN <<cur>>
    ELSE IF Head(path) = Colon THEN <<cur>> \o SearchPath(Tail(path), <<>>)
    ELSE SearchPath(Tail(path), Append(cur, Head(path)))

\* The directory a name of the search path denotes.
Denoted(name) ==
    IF Len(name) > 1 /\ name[Len(name)] = Slash
        THEN SubSeq(name, 1, Len(name) - 1) ELSE name

\* The places of the search path whose directory can be read and holds an
\* executable named x.
Holders(x) ==
    IF env_path = Unset THEN {}
    ELSE {i \in DOMAIN SearchPath(env_path, <<>>) :
             LET d == Denoted(SearchPath(env_path, <<>>)[i])
             IN  /\ d \in DOMAIN directories
                 /\ \E k \in DOMAIN directories[d] :
                        directories[d][k] = [name |-> x, kind |-> "exec"]}

\* C19: after the construction and after any rebuild, every name that is
\* an executable in a readable directory of the search path is mapped to
\* the first directory of the search path that holds an executable of that
\* name.
C19_FirstFound ==
    db_op \in {"constructed", "initialize"} =>
        \A x \in EntryNames :
            Holders(x) # {} =>
                /\ x \in DOMAIN files_
                /\ \E i \in Holders(x) :
                       /\ \A j \in Holders(x) : i <= j
                       /\ files_[x] = Denoted(SearchPath(env_path, <<>>)[i])

\* The files that are recorded when the directories of the search path are
\* listed into an empty database.
Listed == initialize(env_path, directories, <<>>, {})

\* C20: after a rebuild the names and the paths are those that listing the
\* directories into an empty database gives, whatever the database held
\* before: every name and every path recorded is that of an executable
\* that is there now; and a rebuild that follows a constructed or rebuilt
\* database, the directories unchanged, leaves names and paths as they are.
C20_RebuildReplaces ==
    /\ [](db_op = "initialize" =>
             /\ files_ = Listed.files_
             /\ paths_ = Listed.paths_
             /\ \A x \in DOMAIN files_ :
                    /\ files_[x] \in DOMAIN directories
                    /\ \E k \in DOMAIN directories[files_[x]] :
                           directories[files_[x]][k] =
                               [name |-> x, kind |-> "exec"]
             /\ \A p \in paths_ :
                    \E d \in DOMAIN directories :
                        \E k \in DOMAIN directories[d] :
                            /\ directories[d][k].kind = "exec"
                            /\ p = d \o <<Slash>> \o directories[d][k].name)
    /\ [][(db_op \in {"constructed", "initialize"}
              /\ db_op' = "initialize")
          => UNCHANGED <<files_, paths_>>]_vars

\* C20 witness: a rebuild has run on a database that held paths of files
\* that are no longer there, and the database holds other paths now.
C20_Witness ==
    /\ db_op = "initialize"
    /\ db_input # <<>>
    /\ db_input[2] \ paths_ # {}
    /\ paths_ \ db_input[2] # {}

---------------------------------------------------------------------------
(* Directories of the search path that cannot be opened.                   *)

\* The directories the names of the search path denote, in order.
ScannedDirectories ==
    IF env_path = Unset THEN <<>>
    ELSE [i \in DOMAIN SearchPath(env_path, <<>>) |->
             Denoted(SearchPath(env_path, <<>>)[i])]

\* C21: after the construction and after any rebuild, a directory of the
\* search path that cannot be opened contributes no name and no path, and
\* every executable of every other directory of the search path has its
\* path among the paths and its name among the names, whatever directories
\* come before or after it; when the search-path variable is not set, the
\* index is empty.  (An empty name of the search path denotes no directory.)
C21_ScanErrorsNotFatal ==
    db_op \in {"constructed", "initialize"} =>
        /\ env_path = Unset => (files_ = <<>> /\ paths_ = {})
        /\ \A i \in DOMAIN ScannedDirectories :
               LET d == ScannedDirectories[i]
               IN  IF d = <<>> THEN TRUE
                   ELSE IF d \notin DOMAIN directories
                       THEN /\ \A p \in paths_ :
                                   ~starts_with(p, d \o <<Slash>>)
                            /\ \A x \in DOMAIN files_ : files_[x] # d
                   ELSE \A k \in DOMAIN directories[d] :
                            directories[d][k].kind = "exec" =>
                                /\ d \o <<Slash>> \o directories[d][k].name
                                       \in paths_
                                /\ directories[d][k].name \in DOMAIN files_

---------------------------------------------------------------------------
(* executables_database: the suggestions shown under the prompt.           *)

\* The iterator after `e` (++suggestion) in a set or in the keys of a map.
next_suggestion(map, e) ==
    LET C == {f \in map : string_less(e, f)}
    IN  IF C = {} THEN map_end
        ELSE CHOOSE f \in C : \A g \in C : g = f \/ string_less(f, g)

\* u8" *", u8" " and the ellipsis u8"\xE2\x80\xA6".
Delimiter == <<Space, 42>>
Ellipsis  == <<226, 128, 166>>

\* A faulty variant: one suggestion less.
n_suggestions_max_four == 5 - 1

n_suggestions_max == 5

\* The loop over paths_.  `shown` lists the entries (*suggestion) for which
\* text has been appended.
RECURSIVE suggest_paths(_, _, _, _, _, _)
suggest_paths(paths, suggestion, buffer, i, result, shown) ==
    IF suggestion = map_end \/ ~starts_with(suggestion, buffer)
        THEN [result |-> result, shown |-> shown]
    ELSE IF suggestion # buffer
        THEN LET suffix == SubSeq(suggestion, Len(buffer) + 1,
                                  Len(suggestion))
                 r == append_escaped(suffix,
                                     result \o <<Space>> \o Ellipsis)
             IN  IF i + 1 = n_suggestions_max
                     THEN [result |-> r, shown |-> Append(shown, suggestion)]
                 ELSE suggest_paths(paths,
                                    next_suggestion(paths, suggestion),
                                    buffer, i + 1, r,
                                    Append(shown, suggestion))
    ELSE suggest_paths(paths, next_suggestion(paths, suggestion), buffer,
                       i, result, shown)

\* The loop over files_.
RECURSIVE suggest_files(_, _, _, _, _, _)
suggest_files(files, suggestion, buffer, i, result, shown) ==
    IF suggestion = map_end \/ ~starts_with(suggestion, buffer)
        THEN [result |-> result, shown |-> shown]
    ELSE LET r1 == append_escaped_path(files[suggestion],
                                       result \o <<Space>>)
             r2 == IF suggestion # buffer
                       THEN append_escaped(
                                SubSeq(suggestion, Len(buffer) + 1,
                                       Len(suggestion)),
                                r1 \o Ellipsis)
                   ELSE append_escaped(buffer, r1)
         IN  IF i + 1 = n_suggestions_max
                 THEN [result |-> r2, shown |-> Append(shown, suggestion)]
             ELSE suggest_files(files,
                                next_suggestion(DOMAIN files, suggestion),
                                buffer, i + 1, r2,
                                Append(shown, suggestion))

\* executables_database::lookup_suggestions: what is appended to `result`.
lookup_suggestions(input, result, files, paths) ==
    IF input = <<>> THEN [result |-> result, shown |-> <<>>]
    ELSE LET s == split_command_string(input)
             buffer_ == s.command
             r == append_command_string_(buffer_, s.arguments, result,
                                         files)
         IN  IF s.arguments # <<>> THEN [result |-> r, shown |-> <<>>]
             ELSE IF Head(input) = Slash
                 THEN suggest_paths(paths, lower_bound(paths, buffer_),
                                    buffer_, 0, r \o Delimiter, <<>>)
             ELSE suggest_files(files,
                                lower_bound(DOMAIN files, buffer_),
                                buffer_, 0, r \o Delimiter, <<>>)

---------------------------------------------------------------------------
(* The prompt specification: a database built from one directory, /a or   *)
(* the root directory, that holds any of seven executables; any short      *)
(* text typed at the prompt is completed, shown with its suggestions, or   *)
(* submitted.                                                               *)

Root == <<Slash>>

\* a, aa, aaa, a followed by a space, by a backslash and by the largest
\* byte, and the largest byte alone.
PromptNames ==
    { <<97>>, <<97, 97>>, <<97, 97, 97>>, <<97, Space>>, <<97, Backslash>>,
      <<97, ByteMod - 1>>, <<ByteMod - 1>> }

InitPrompt ==
    /\ env_path \in {Dir, Root}
    /\ \E N \in SUBSET PromptNames :
          directories = [d \in {env_path} |-> ExecEntries(N)]
    /\ LET db == initialize(env_path, directories, <<>>, {})
       IN  files_ = db.files_ /\ paths_ = db.paths_
    /\ db_op = "none"
    /\ db_input = <<>>
    /\ db_result = <<>>
    /\ db_shown = <<>>
    /\ cmdIdle
    /\ startIdle
    /\ clockIdle
    /\ statusIdle
    /\ execIdle
    /\ ipcIdle

LookupSuggestions(input) ==
    /\ db_op = "none"
    /\ db_op' = "lookup_suggestions"
    /\ db_input' = input
    /\ \E r \in {lookup_suggestions(input, <<>>, files_, paths_)} :
           /\ db_result' = r.result
           /\ db_shown' = r.shown
    /\ UNCHANGED <<env_path, directories, files_, paths_, notDb>>

ModifyCommandString(input) ==
    /\ db_op = "none"
    /\ db_op' = "modify_command_string"
    /\ db_input' = input
    /\ db_result' = modify_command_string(input, files_)
    /\ UNCHANGED <<env_path, directories, files_, paths_, db_shown, notDb>>

NextPrompt ==
    \/ \E input \in InputPool : Autocomplete(input)
    \/ \E input \in InputPool : LookupSuggestions(input)
    \/ \E input \in InputPool : ModifyCommandString(input)

SpecPrompt == InitPrompt /\ [][NextPrompt]_vars

\* The text of the command in an input: the characters before the first
\* space that no backslash escapes.
RECURSIVE CommandText(_, _, _)
CommandText(input, k, is_escaped) ==
    IF k = Len(input) THEN input
    ELSE IF ~is_escaped /\ input[k + 1] = Backslash
        THEN CommandText(input, k + 1, TRUE)
    ELSE IF ~is_escaped /\ input[k + 1] = Space
        THEN SubSeq(input, 1, k)
    ELSE CommandText(input, k + 1, FALSE)

\* The text after that space.
ArgumentText(input) ==
    LET c == CommandText(input, 0, FALSE)
    IN  SubSeq(input, Len(c) + 2, Len(input))

\* C22: modify_command_string returns the command followed, when the
\* argument remainder is not empty, by one space and the remainder byte
\* for byte.  When the token starts with '/', the command returned is the
\* input's command unchanged: it is read back (escapes removed) as the
\* same token, to its last character.  When the token is a key of names,
\* the command returned is the escaped form of the directory names[token],
\* a separator, and the token.
C22_Canonicalize ==
    db_op = "modify_command_string" =>
        LET token == unescape(db_input)
            remainder == ArgumentText(db_input)
            tail == IF remainder = <<>> THEN <<>>
                    ELSE <<Space>> \o remainder
            n == Len(db_result) - Len(tail)
            command == SubSeq(db_result, 1, n)
        IN  /\ (starts_with(token, <<Slash>>) \/ token \in DOMAIN files_) =>
                   /\ n >= 0
                   /\ db_result = command \o tail
            /\ starts_with(token, <<Slash>>) =>
                   /\ unescape(command) = token
                   /\ CommandText(command, 0, FALSE) = command
            /\ (~starts_with(token, <<Slash>>) /\ token \in DOMAIN files_) =>
                   command =
                       append_escaped(
                           (IF files_[token] = Root THEN <<>>
                            ELSE files_[token]) \o <<Slash>> \o token, <<>>)

---------------------------------------------------------------------------
(* main.cc: the event loop.  The database holds the executables a and aa   *)
(* of /a; the requests of the dispatch channel, the keys and the text      *)
(* typed arrive in any order.  cmd_op, cmd_string, cmd_ret, cmd_writes and *)
(* cmd_post record the call of execute made by the handler that ran last   *)
(* (none when it made no call).                                            *)

\* A faulty variant of text_input::clear: nothing is cleared.
text_input_clear_nothing ==
    [string_ |-> string_, cursor_history_ |-> cursor_history_]

\* text_input::clear, text_input::enter and text_input::erase, on the pair
\* of string_ and cursor_history_.
text_input_clear == [string_ |-> <<>>, cursor_history_ |-> <<>>]

text_input_enter(string, history, entered) ==
    IF entered # <<>>
        THEN [string_ |-> string \o entered,
              cursor_history_ |-> Append(history, Len(string))]
    ELSE [string_ |-> string, cursor_history_ |-> history]

\* A faulty variant of text_input::erase: one character is removed.
text_input_erase_one(string, history) ==
    IF history = <<>> THEN [string_ |-> string, cursor_history_ |-> history]
    ELSE [string_ |-> SubSeq(string, 1, Len(string) - 1),
          cursor_history_ |-> SubSeq(history, 1, Len(history) - 1)]

text_input_erase(string, history) ==
    IF history = <<>> THEN [string_ |-> string, cursor_history_ |-> history]
    ELSE LET i == history[Len(history)]
         IN  [string_ |-> IF i < Len(string) THEN SubSeq(string, 1, i)
                          ELSE string,
              cursor_history_ |-> SubSeq(history, 1, Len(history) - 1)]

\* The requests of the dispatch and status channels (enum request).
Requests ==
    {"prompt_normal", "prompt_privileged", "reload_database", "reload_theme"}

\* The bytes of the text typed: a, a space, a backslash and a slash.
TypedBytes == {97, Space, Backslash, Slash}

NoExecute ==
    /\ cmd_op' = "none"
    /\ cmd_string' = <<>>
    /\ cmd_ret' = "none"
    /\ cmd_writes' = <<>>
    /\ cmd_post' = <<>>

InitMain ==
    /\ env_path = Dir
    /\ directories = [d \in {Dir} |-> ExecEntries({<<97>>, <<97, 97>>})]
    /\ LET db == initialize(env_path, directories, <<>>, {})
       IN  files_ = db.files_ /\ paths_ = db.paths_
    /\ db_op = "constructed"
    /\ db_input = <<>>
    /\ db_result = <<>>
    /\ db_shown = <<>>
    /\ cmdIdle
    /\ startIdle
    /\ clockIdle
    /\ statusIdle
    /\ execIdle
    /\ ipcIdle

\* A faulty variant of the choice of the executor: always the pipe.
route_always_pipe(privileged) == "execute_pipe"

\* if(is_prompt_privileged) execute(ipc_client, string);
\* else execute(pipe, string).
route(privileged) == IF privileged THEN "execute_ipc" ELSE "execute_pipe"

\* is_prompt_privileged after a request.
prompt_mode(request, privileged) ==
    IF request = "prompt_normal" THEN FALSE
    ELSE IF request = "prompt_privileged" THEN TRUE
    ELSE privileged

\* The history of the text after a handler: a byte that is kept keeps its
\* record, which becomes "stale" when a show-prompt request is handled; a
\* byte that is new was entered under the prompt of the handler.
mark_entered(string, privileged, is_prompt_request) ==
    [k \in 1..Len(string) |->
        IF k <= Len(entered_under)
            THEN (IF is_prompt_request THEN "stale" ELSE entered_under[k])
        ELSE IF privileged THEN "privileged" ELSE "normal"]

\* An event of type state.event_idx: a request pushed by the IPC client.
MainRequest(request) ==
    /\ is_program_running
    /\ main_event' = request
    /\ is_prompt_privileged' = prompt_mode(request, is_prompt_privileged)
    /\ IF request \in {"prompt_normal", "prompt_privileged"}
           THEN /\ is_window_visible' = TRUE
                /\ string_' = text_input_clear.string_
                /\ cursor_history_' = text_input_clear.cursor_history_
       ELSE UNCHANGED <<is_window_visible, string_, cursor_history_>>
    /\ entered_under' =
           mark_entered(string_', is_prompt_privileged',
                        request \in {"prompt_normal", "prompt_privileged"})
    /\ IF request = "reload_database"
           THEN /\ LET db == initialize(env_path, directories, files_,
                                        paths_)
                   IN  files_' = db.files_ /\ paths_' = db.paths_
                /\ db_op' = "initialize"
       ELSE UNCHANGED <<files_, paths_, db_op>>
    /\ NoExecute
    /\ UNCHANGED <<env_path, directories, db_input, db_result, db_shown,
                   startVars, clockVars, statusVars, parVars, exVars,
                   ipcVars>>

\* SDL_QUIT.
MainQuit ==
    /\ is_program_running
    /\ main_event' = "quit"
    /\ context' = IF context = "run" THEN "stopping" ELSE context
    /\ is_program_running' = FALSE
    /\ NoExecute
    /\ UNCHANGED <<is_prompt_privileged, is_window_visible, string_,
                   cursor_history_, entered_under>>
    /\ UNCHANGED <<endpoint, is_tx_active, socket, wire, client_pc, attempts,
                   ipc_packet_size, ipc_packet, events, senders, calls,
                   startVars, clockVars, statusVars, dbVars, parVars,
                   exVars>>

\* SDL_WINDOWEVENT_FOCUS_LOST and the key SDLK_ESCAPE: hide_window().
MainHide(event) ==
    /\ is_program_running
    /\ main_event' = event
    /\ is_window_visible' = FALSE
    /\ NoExecute
    /\ UNCHANGED <<is_prompt_privileged, string_, cursor_history_,
                   entered_under, notCmd>>

\* SDL_TEXTINPUT: text_input.enter(event.text.text).
MainTextInput(text) ==
    /\ is_program_running
    /\ Len(string_) + Len(text) <= MaxInputLen
    /\ main_event' = "text"
    /\ LET t == text_input_enter(string_, cursor_history_, text)
       IN  string_' = t.string_ /\ cursor_history_' = t.cursor_history_
    /\ entered_under' = mark_entered(string_', is_prompt_privileged, FALSE)
    /\ NoExecute
    /\ UNCHANGED <<is_prompt_privileged, is_window_visible, notCmd>>

\* SDLK_BACKSPACE: text_input.erase().
MainBackspace ==
    /\ is_program_running
    /\ main_event' = "backspace"
    /\ LET t == text_input_erase(string_, cursor_history_)
       IN  string_' = t.string_ /\ cursor_history_' = t.cursor_history_
    /\ entered_under' = mark_entered(string_', is_prompt_privileged, FALSE)
    /\ NoExecute
    /\ UNCHANGED <<is_prompt_privileged, is_window_visible, notCmd>>

\* SDLK_TAB: database.autocomplete(text_input, string);
\* text_input.enter(string).  (The guard on the length bounds the text: a
\* completion is entered after the arguments too, time and again.)
MainTab ==
    /\ is_program_running
    /\ Len(string_) <= MaxInputLen
    /\ main_event' = "tab"
    /\ LET t == text_input_enter(string_, cursor_history_,
                                 autocomplete(string_, files_, paths_))
       IN  string_' = t.string_ /\ cursor_history_' = t.cursor_history_
    /\ entered_under' = mark_entered(string_', is_prompt_privileged, FALSE)
    /\ NoExecute
    /\ UNCHANGED <<is_prompt_privileged, is_window_visible, notCmd>>

\* SDLK_RETURN: database.modify_command_string(text_input, string); the
\* string is executed through the IPC client or through the pipe;
\* hide_window().  ok1 and ok2: the writes to the pipe succeed; tx_active:
\* the value of is_tx_active that request_execution reads.
MainReturn(ok1, ok2, tx_active) ==
    /\ is_program_running
    /\ main_event' = "return"
    /\ LET string == Runs(modify_command_string(string_, files_))
       IN  /\ cmd_string' = string
           /\ cmd_op' = route(is_prompt_privileged)
           /\ IF route(is_prompt_privileged) = "execute_ipc"
                  THEN LET r == execute_ipc(tx_active, string)
                       IN  /\ cmd_ret' = r.ret
                           /\ cmd_post' = r.post
                           /\ cmd_writes' = <<>>
              ELSE LET r == execute_pipe(string, ok1, ok2)
                   IN  /\ cmd_ret' = r.ret
                       /\ cmd_writes' = r.writes
                       /\ cmd_post' = <<>>
    /\ is_window_visible' = FALSE
    /\ UNCHANGED <<is_prompt_privileged, string_, cursor_history_,
                   entered_under, notCmd>>

\* The rendering of a frame that ends an iteration of the loop changes
\* nothing but the pixels shown and is left out.
NextMain ==
    \/ \E request \in Requests : MainRequest(request)
    \/ MainQuit
    \/ \E event \in {"focus_lost", "escape"} : MainHide(event)
    \/ \E c \in TypedBytes : MainTextInput(<<c>>)
    \/ MainBackspace
    \/ MainTab
    \/ \E ok1, ok2, tx_active \in BOOLEAN : MainReturn(ok1, ok2, tx_active)

SpecMain == InitMain /\ [][NextMain]_vars

\* C23: the handler of the return key hands the command to the pipe alone
\* when the prompt is in normal mode and to the IPC client alone when it
\* is in privileged mode; no other handler hands a command to either; and
\* the mode is the one of the show-prompt request handled last: such a
\* request sets it, and nothing else changes it.
C23_PrivilegeRouting ==
    [][/\ main_event' = "return" =>
              /\ ~is_prompt_privileged =>
                     (cmd_op' = "execute_pipe" /\ cmd_post' = <<>>)
              /\ is_prompt_privileged =>
                     (cmd_op' = "execute_ipc" /\ cmd_writes' = <<>>)
       /\ main_event' # "return" =>
              (cmd_op' = "none" /\ cmd_writes' = <<>> /\ cmd_post' = <<>>)
       /\ main_event' = "prompt_normal" => ~is_prompt_privileged'
       /\ main_event' = "prompt_privileged" => is_prompt_privileged'
       /\ main_event' \notin {"prompt_normal", "prompt_privileged"} =>
              is_prompt_privileged' = is_prompt_privileged]_vars

\* C23 witness: the return key has been handled with the prompt in
\* privileged mode; the command has been posted to the IPC client and
\* nothing has been written to the pipe.
C23_Witness ==
    /\ main_event = "return"
    /\ is_prompt_privileged
    /\ cmd_op = "execute_ipc"
    /\ cmd_ret = "success"
    /\ cmd_post # <<>>
    /\ cmd_writes = <<>>

---------------------------------------------------------------------------
(* Execution requests handed to request_execution as they are: blobs that  *)
(* are empty, that end or do not end in NUL, and that are as long as the   *)
(* packet storage allows, one byte shorter and one byte longer.            *)

\* "", NUL, "a", "a" NUL, "a" NUL "a" NUL, and blobs of 8190, 8191 and 8192
\* bytes with and without a NUL at the end.
Blobs ==
    { <<>>,
      <<<<Nul, 1>>>>,
      <<<<97, 1>>>>,
      <<<<97, 1>>, <<Nul, 1>>>>,
      <<<<97, 1>>, <<Nul, 1>>, <<97, 1>>, <<Nul, 1>>>> }
    \cup {<<<<97, n - 1>>, <<Nul, 1>>>> :
             n \in (IpcStorageSize - 2)..IpcStorageSize}
    \cup {<<<<97, n>>>> : n \in (IpcStorageSize - 2)..IpcStorageSize}

\* request_execution called by the consumer thread.  The call is recorded
\* with its blob and with what it has posted.
RequestExecutionRaw(command_and_args) ==
    /\ is_program_running
    /\ context = "run"
    /\ Len(calls) < MaxCalls
    /\ \E r \in {request_execution(is_tx_active, command_and_args)} :
           /\ calls' = Append(calls,
                  [ret       |-> r.ret,
                   in_flight |-> \E i \in DOMAIN senders :
                                     senders[i].pc \in ActivePcs,
                   blob      |-> command_and_args,
                   post      |-> r.post])
           /\ senders' = IF r.post = <<>> THEN senders
                         ELSE Append(senders, [pc     |-> "posted",
                                               failed |-> FALSE,
                                               packet |-> r.post[1]])
    /\ UNCHANGED <<is_program_running, context, endpoint, is_tx_active,
                   socket, wire, client_pc, attempts, ipc_packet_size,
                   ipc_packet, events, notIpc>>

NextRequest ==
    \/ Channel("dispatch", PacketSizes, QuietPackets(IpcStorageSize))
    \/ \E blob \in Blobs : RequestExecutionRaw(blob)
    \/ \E i \in DOMAIN senders : SendStart(i)
    \/ \E i \in DOMAIN senders : SendSizeDone(i)
    \/ \E i \in DOMAIN senders : SendDataDone(i)

SpecRequest == InitIpc /\ [][NextRequest]_vars

\* A blob that request_execution must refuse.
Refused(blob) ==
    \/ BLen(blob) = 0
    \/ BLen(blob) > IpcStorageSize - 1
    \/ BAt(blob, BLen(blob) - 1) # Nul

\* C24: a call of request_execution with a blob that is empty, longer
\* than 8191 bytes or not ending in NUL returns false and posts nothing;
\* and what a send routine writes on the dispatch connection is, first,
\* two bytes that hold the length L of its packet, L <= 8192, and then L
\* bytes: the tag 3 and the blob of the call that posted the packet, which
\* ends in NUL.
C24_RequestFormat ==
    /\ [](\A c \in DOMAIN calls :
              Refused(calls[c].blob) =>
                  (calls[c].ret = FALSE /\ calls[c].post = <<>>))
    /\ [][\A i \in DOMAIN senders :
              wire'["dispatch"] # wire["dispatch"]
              /\ wire'["dispatch"] # <<>>
              /\ wire'["dispatch"][Len(wire'["dispatch"])][1] = i
              => LET written == wire'["dispatch"][Len(wire'["dispatch"])][2]
                     L == senders[i].packet.size
                 IN  /\ L <= IpcStorageSize
                     /\ \/ /\ senders[i].pc = "posted"
                           /\ senders'[i].pc = "write_size"
                           /\ BLen(written) = 2
                           /\ buffer_to_int(written) = L
                        \/ /\ senders[i].pc = "write_size"
                           /\ senders'[i].pc = "write_data"
                           /\ BLen(written) = L
                           /\ BAt(written, 0) = ExecuteTag
                           /\ BAt(written, L - 1) = Nul
                           /\ \E c \in DOMAIN calls :
                                  /\ calls[c].post = <<senders[i].packet>>
                                  /\ BDrop(written, 1) = Norm(calls[c].blob)]_vars

\* C24 witness: a blob of 8192 bytes that ends in NUL has been refused, and
\* the packet of a blob of 8191 bytes has been written, length and data.
C24_Witness ==
    /\ \E c \in DOMAIN calls :
           /\ calls[c].blob = <<<<97, IpcStorageSize - 1>>, <<Nul, 1>>>>
           /\ calls[c].ret = FALSE
    /\ \E i \in DOMAIN senders :
           /\ senders[i].pc = "done"
           /\ ~senders[i].failed
           /\ senders[i].packet.size = IpcStorageSize
           /\ \E k \in DOMAIN wire["dispatch"] :
                  /\ k > 1
                  /\ wire["dispatch"][k][1] = i
                  /\ BLen(wire["dispatch"][k][2]) = IpcStorageSize
                  /\ wire["dispatch"][k - 1] = <<i, int_to_buffer(IpcStorageSize)>>

\* ------------------------------------------------------------------
\* The start of the program: main() up to its event loop.

\* A faulty variant of run_executor_process: a failed fork leaves the
\* descriptors of the pipe open.
run_executor_process_leak(pipe_ok, fork_ok) ==
    IF ~pipe_ok
        THEN [fds |-> {}, ret |-> InvalidFd, executor |-> FALSE]
    ELSE IF ~fork_ok
        THEN [fds |-> {"read", "write"}, ret |-> InvalidFd,
              executor |-> FALSE]
    ELSE [fds |-> {"write"}, ret |-> WriteFd, executor |-> TRUE]

\* run_executor_process, as the calling process sees it.  pipe_ok and
\* fork_ok: pipe() and fork() succeed.  fds: the descriptors of the pipe
\* open in the calling process at the return; ret: the value returned;
\* executor: the executor process exists.
run_executor_process(pipe_ok, fork_ok) ==
    IF ~pipe_ok
        THEN [fds |-> {}, ret |-> InvalidFd, executor |-> FALSE]
    ELSE IF ~fork_ok
        THEN [fds |-> {}, ret |-> InvalidFd, executor |-> FALSE]
    ELSE [fds |-> {"write"}, ret |-> WriteFd, executor |-> TRUE]

\* The process has been started: nothing of main() has run, there is no
\* executor process, no pipe, no IPC client and no database.
InitStartup ==
    /\ main_pc = "start"
    /\ pipe_fds = {}
    /\ pipe_endpoint = <<>>
    /\ ipc_thread = "none"
    /\ clockIdle
    /\ statusIdle
    /\ env_path = Dir
    /\ directories = [d \in {Dir} |-> ExecEntries({<<97>>, <<97, 97>>})]
    /\ files_ = <<>>
    /\ paths_ = {}
    /\ db_op = "none"
    /\ db_input = <<>>
    /\ db_result = <<>>
    /\ db_shown = <<>>
    /\ cmdIdle
    /\ pipe = <<>>
    /\ par_pc = "idle"
    /\ par_buf = <<>>
    /\ par_cmd = <<>>
    /\ wr_open = FALSE
    /\ accepted = <<>>
    /\ ex_pc = "none"
    /\ packet_size = 0
    /\ packet_storage = <<>>
    /\ la_pc = "none"
    /\ la_argv = <<>>
    /\ targets = <<>>
    /\ launched = <<>>
    /\ executor_fds = IF ex_pc = "none" THEN {} ELSE {"read"}
    /\ launcher_fds = {}
    /\ target_fds = <<>>
    /\ ipcIdle

\* if(std::getenv("HOME") == nullptr) return EXIT_FAILURE.
StartupHome(home_set) ==
    /\ main_pc = "start"
    /\ main_pc' = IF home_set THEN "run_executor_process" ELSE "exit_failure"
    /\ UNCHANGED <<pipe_fds, pipe_endpoint, ipc_thread,
                   clockVars, statusVars, dbVars,
                   cmdVars, parVars, exVars, ipcVars>>

\* pipe_endpoint pipe = run_executor_process().  The executor process,
\* when forked, starts reading the pipe that the program holds open.
StartupExecutor(pipe_ok, fork_ok) ==
    /\ main_pc = "run_executor_process"
    /\ \E r \in {run_executor_process(pipe_ok, fork_ok)} :
          /\ pipe_fds' = r.fds
          /\ pipe_endpoint' = <<r.ret>>
          /\ ex_pc' = IF r.executor THEN "read_size" ELSE ex_pc
          /\ executor_fds' = IF r.executor
                                 THEN executor_close(fork_fds({"read", "write"}))
                                 ELSE executor_fds
          /\ wr_open' = ("write" \in r.fds)
    /\ main_pc' = "check_pipe"
    /\ UNCHANGED <<ipc_thread, clockVars, statusVars, dbVars, cmdVars, pipe,
                   par_pc, par_buf, par_cmd, accepted, packet_size, packet_storage, la_pc,
                   la_argv, targets, launched, launcher_fds, target_fds,
                   ipcVars>>

\* if(pipe == -1) return EXIT_FAILURE.
StartupCheck ==
    /\ main_pc = "check_pipe"
    /\ main_pc' = IF pipe_endpoint = <<InvalidFd>> THEN "exit_failure"
                  ELSE "initialize"
    /\ UNCHANGED <<pipe_fds, pipe_endpoint, ipc_thread,
                   clockVars, statusVars, dbVars,
                   cmdVars, parVars, exVars, ipcVars>>

\* The text rendering context, SDL, the window and the renderer are
\* initialised; a failure (ok = FALSE) returns EXIT_FAILURE, and the
\* destructor of the pipe endpoint closes the write end.
StartupInitialize(ok) ==
    /\ main_pc = "initialize"
    /\ IF ok
           THEN /\ main_pc' = "ipc_client"
                /\ UNCHANGED <<pipe_fds, wr_open>>
       ELSE /\ main_pc' = "exit_failure"
            /\ pipe_fds' = {}
            /\ wr_open' = FALSE
    /\ UNCHANGED <<pipe_endpoint, ipc_thread, clockVars, statusVars, dbVars, cmdVars,
                   pipe, par_pc, par_buf, par_cmd, accepted, exVars, ipcVars>>

\* ipc_client = initialize_ipc_client(state) starts the thread of the IPC
\* client; database = executables_database{}; is_prompt_privileged = false;
\* the event loop is entered.
StartupClient ==
    /\ main_pc = "ipc_client"
    /\ ipc_thread' = "running"
    /\ LET db == initialize(env_path, directories, <<>>, {})
       IN  files_' = db.files_ /\ paths_' = db.paths_
    /\ db_op' = "constructed"
    /\ main_pc' = "loop"
    /\ UNCHANGED <<pipe_fds, pipe_endpoint, env_path, directories, db_input,
                   db_result, db_shown, clockVars, statusVars, cmdVars, parVars, exVars,
                   ipcVars>>

NextStartup ==
    \/ \E home_set \in BOOLEAN : StartupHome(home_set)
    \/ \E pipe_ok, fork_ok \in BOOLEAN : StartupExecutor(pipe_ok, fork_ok)
    \/ StartupCheck
    \/ \E ok \in BOOLEAN : StartupInitialize(ok)
    \/ StartupClient
    \/ (main_pc = "loop" /\ NextMain)

SpecStartup == InitStartup /\ [][NextStartup]_vars

\* C25: when run_executor_process has returned and there is no executor
\* process (pipe() or fork() failed), the value returned is -1, no
\* descriptor of the pipe is open, main is at the test of the handle or
\* has returned EXIT_FAILURE, the IPC client has not been started and no
\* event of the loop has been handled, so no command has been accepted;
\* and the only step from such a state is the return of EXIT_FAILURE.
C25_StartupFailure ==
    /\ [](pipe_endpoint # <<>> /\ ex_pc = "none" =>
              /\ pipe_endpoint = <<InvalidFd>>
              /\ pipe_fds = {}
              /\ main_pc \in {"check_pipe", "exit_failure"}
              /\ ipc_thread = "none"
              /\ main_event = "none"
              /\ cmd_op = "none"
              /\ db_op = "none")
    /\ [][pipe_endpoint # <<>> /\ ex_pc = "none" =>
              main_pc' = "exit_failure"]_vars

\* C25 witness: the executor could not be started and main has returned
\* EXIT_FAILURE.
C25_Witness ==
    /\ main_pc = "exit_failure"
    /\ pipe_endpoint = <<InvalidFd>>
    /\ ex_pc = "none"

\* ------------------------------------------------------------------
\* The client routines with the passing of time.

\* The clock is followed up to this time, in seconds.
MaxTime == 11

\* The fixed delay before a connection attempt that follows a failure.
ReconnectDelay == 5

\* A faulty variant: a routine is spawned again without a delay.
restart_dt_none == 5 - 5

\* co_spawn(data.context, run_dispatcher_client(data, 5s), detached), and
\* the same for run_status_client: the delay of a routine that is spawned
\* again, in seconds.
restart_dt == 5

\* One second passes.
Tick ==
    /\ now < MaxTime
    /\ now' = now + 1
    /\ UNCHANGED <<timer_expiry, ended_at, startVars, statusVars, dbVars, cmdVars,
                   parVars, exVars, ipcVars>>

\* The routine of ch has left its try block in this step and has been
\* spawned again: the new routine sets its timer to expire after dt.  (The
\* new routine starts as soon as the I/O thread is free, taken here as
\* the moment of the failure: the earliest expiry there can be.)
arm(ch) ==
    /\ now' = now
    /\ IF client_pc'[ch] = "timer"
           THEN /\ timer_expiry' = [timer_expiry EXCEPT
                                       ![ch] = now + restart_dt]
                /\ ended_at' = [ended_at EXCEPT ![ch] = now]
       ELSE UNCHANGED <<timer_expiry, ended_at>>

\* co_await timer.async_wait completes when the timer has expired; with
\* dt = 0 there is no timer and the connection attempt is made at once.
TimedConnectStart(ch, ok) ==
    /\ client_pc[ch] = "timer" => timer_expiry[ch] <= now
    /\ ConnectStart(ch, ok)
    /\ UNCHANGED clockVars

TimedConnected(ch) == Connected(ch) /\ arm(ch)

TimedHandshakeDone(ch, ok) == HandshakeDone(ch, ok) /\ arm(ch)

TimedReadSize(ch, size) == ReadSize(ch, size) /\ arm(ch)

TimedReadFail(ch) == ReadFail(ch) /\ arm(ch)

NextTimed ==
    \/ \E ch \in Channels, ok \in BOOLEAN : TimedConnectStart(ch, ok)
    \/ \E ch \in Channels : TimedConnected(ch)
    \/ \E ch \in Channels, ok \in BOOLEAN : TimedHandshakeDone(ch, ok)
    \/ \E ch \in Channels, size \in PacketSizes : TimedReadSize(ch, size)
    \/ \E ch \in Channels, packet \in QuietPackets(IpcStorageSize) :
           ClientReadData(ch, packet)
    \/ \E ch \in Channels : TimedReadFail(ch)
    \/ \E ch \in Channels : PeerClose(ch)
    \/ Tick
    \/ Stop
    \/ ClearRunning
    \/ IoReturn

SpecTimed == InitIpc /\ [][NextTimed]_vars

\* C26: on each channel, the routine spawned at the start of the client
\* waits for no timer: its connection attempt, the first of the channel,
\* can be made in every state until it is made (while the I/O context
\* runs handlers), and it is the only attempt made from that position;
\* every later attempt is made at least ReconnectDelay seconds after the
\* moment at which the previous connection or attempt of the channel
\* ended, which is the moment the routine left its try block.
C26_ReconnectDelay ==
    /\ [](\A ch \in Channels :
             /\ client_pc[ch] = "start" <=> attempts[ch] = "none"
             /\ client_pc[ch] = "start" /\ io_runs(context) =>
                    ENABLED TimedConnectStart(ch, FALSE))
    /\ [][\A ch \in Channels :
             /\ client_pc[ch] # "timer" /\ client_pc'[ch] = "timer" =>
                    ended_at'[ch] = now'
             /\ client_pc[ch] = "timer" /\ client_pc'[ch] = "timer" =>
                    ended_at'[ch] = ended_at[ch]
             /\ client_pc[ch] # "connect" /\ client_pc'[ch] = "connect"
                    /\ attempts[ch] # "none" =>
                    /\ client_pc[ch] = "timer"
                    /\ now >= ended_at[ch] + ReconnectDelay]_vars

\* C26 witness: on the dispatch channel a connection was made at time 0
\* and ended one second later, and the next attempt is being made exactly
\* ReconnectDelay seconds after that; the status channel, whose first
\* attempt failed at time 0, is at its second attempt.
C26_Witness ==
    /\ client_pc["dispatch"] = "connect"
    /\ attempts["dispatch"] = "again"
    /\ ended_at["dispatch"] = 1
    /\ now = ended_at["dispatch"] + ReconnectDelay
    /\ client_pc["status"] = "connect"
    /\ attempts["status"] = "again"
    /\ ended_at["status"] = 0

\* ------------------------------------------------------------------
\* The index a lookup is made in.

\* The index named by the token of an input: paths when the token begins
\* with '/', the keys of names otherwise.
TokenIndex(input) ==
    IF starts_with(unescape(input), <<Slash>>) THEN "paths" ELSE "names"

\* C27: for every non-empty input, the result of autocomplete is the
\* completion of the token in the index named by the token, paths when the
\* token begins with '/' and the keys of names otherwise; and the entries
\* shown by lookup_suggestions for an input without arguments are those
\* found in that index.
C27_IndexSelection ==
    /\ (db_op = "autocomplete" /\ db_input # <<>>) =>
           db_result =
               IF TokenIndex(db_input) = "paths"
                   THEN perform_lookup(paths_, db_input)
               ELSE perform_lookup(DOMAIN files_, db_input)
    /\ (db_op = "lookup_suggestions" /\ db_input # <<>>
            /\ split_command_string(db_input).arguments = <<>>) =>
           LET buffer_ == unescape(db_input)
           IN  db_shown =
                   IF TokenIndex(db_input) = "paths"
                       THEN suggest_paths(paths_,
                                lower_bound(paths_, buffer_), buffer_, 0,
                                <<>>, <<>>).shown
                   ELSE suggest_files(files_,
                            lower_bound(DOMAIN files_, buffer_), buffer_, 0,
                            <<>>, <<>>).shown

\* ------------------------------------------------------------------
\* The suggestions shown.

\* The entries of the index a lookup of `input` is made in that have the
\* token as a prefix.
Candidates(input) ==
    {e \in LookupIndex(input) : starts_with(e, unescape(input))}

\* `shown` lists, in ascending order, the smallest entries of M, at most
\* n of them.
SmallestOf(shown, M, n) ==
    /\ Len(shown) = IF Cardinality(M) < n THEN Cardinality(M) ELSE n
    /\ \A k \in DOMAIN shown : shown[k] \in M
    /\ \A k, l \in DOMAIN shown : k < l => string_less(shown[k], shown[l])
    /\ \A e \in M :
           (\A k \in DOMAIN shown : shown[k] # e) =>
               \A k \in DOMAIN shown : string_less(shown[k], e)

\* With a non-empty remainder nothing is suggested, and the text is the
\* command line as modify_command_string gives it, which ends with a
\* space and the remainder.
PassedThrough ==
    LET remainder == split_command_string(db_input).arguments
    IN  remainder # <<>> =>
            /\ db_shown = <<>>
            /\ db_result = modify_command_string(db_input, files_)
            /\ Len(db_result) > Len(remainder)
            /\ SubSeq(db_result, Len(db_result) - Len(remainder),
                      Len(db_result)) = <<Space>> \o remainder

\* C28 as stated: the entries suggested are the smallest entries of the
\* index that have the token as a prefix, at most 5, in ascending order;
\* with a non-empty remainder nothing is suggested and the command line is
\* passed through.
C28_SuggestionsAsStated ==
    (db_op = "lookup_suggestions" /\ db_input # <<>>) =>
        /\ split_command_string(db_input).arguments = <<>> =>
               SmallestOf(db_shown, Candidates(db_input), 5)
        /\ PassedThrough

\* C28, amended: as stated, except that in paths the entry equal to the
\* token is not suggested and does not count towards the 5.
C28_Suggestions ==
    (db_op = "lookup_suggestions" /\ db_input # <<>>) =>
        /\ split_command_string(db_input).arguments = <<>> =>
               SmallestOf(db_shown,
                          IF Head(db_input) = Slash
                              THEN Candidates(db_input)
                                       \ {unescape(db_input)}
                          ELSE Candidates(db_input),
                          5)
        /\ PassedThrough

\* C28 witness: the token is a path of the index and five more paths have
\* it as a prefix; these five are suggested.
C28_Witness ==
    /\ db_op = "lookup_suggestions"
    /\ db_input = <<Slash, 97>>
    /\ db_input \in paths_
    /\ Cardinality(Candidates(db_input)) = 6
    /\ Len(db_shown) = 5

\* ------------------------------------------------------------------
\* process_packet of run_status_client, followed through a packet.

\* The loop of process_packet: `packet` is the span that is left,
\* `position` its offset in the packet read, `read` the offsets at which
\* packet[0] has been read.  At the end of the loop `end` is the offset of
\* the span that is left.
RECURSIVE status_loop(_, _, _)
status_loop(packet, position, read) ==
    IF packet = <<>> THEN [read |-> read, end |-> position]
    ELSE LET type == BAt(packet, 0)
         IN  IF type < Len(data_sizes)
                 THEN IF type = status_type_theme
                          THEN [read |-> Append(read, position),
                                end |-> position]
                      ELSE LET n == IF BLen(packet) < data_sizes[type + 1]
                                        THEN BLen(packet)
                                    ELSE data_sizes[type + 1]
                           IN  status_loop(BDrop(packet, n), position + n,
                                           Append(read, position))
             ELSE [read |-> Append(read, position), end |-> position]

\* The longest status packet of the pool.
MaxStatusLen == 6

\* The packets processed: every packet up to MaxStatusLen bytes made of a
\* server state type, a keymap type, the theme type, the largest type
\* known and the smallest unknown one; and for each other type and the
\* largest byte, the type alone, followed by a theme type, and followed by
\* five of them.
StatusPool ==
    StringsUpTo({0, 1, 3, 7, 8}, MaxStatusLen)
        \cup UNION {{<<t>>, <<t, 3>>, <<t, 3, 3, 3, 3, 3>>} :
                       t \in {2, 4, 5, 6, ByteMod - 1}}

InitStatus ==
    /\ dbIdle
    /\ cmdIdle
    /\ startIdle
    /\ clockIdle
    /\ statusIdle
    /\ execIdle
    /\ ipcIdle

\* process_packet(data.state, std::span{packet_storage}.first(packet_size))
ProcessStatusPacket(packet) ==
    /\ status_op' = "process_packet"
    /\ status_packet' = packet
    /\ \E r \in {status_loop(Runs(packet), 0, <<>>)} :
           /\ status_read' = r.read
           /\ status_end' = r.end
    /\ status_events' = process_packet_status(Runs(packet))
    /\ UNCHANGED <<loopVars, startVars, clockVars, dbVars, cmdVars, parVars, exVars,
                   ipcVars>>

\* One packet is followed in a behaviour.
NextStatus ==
    /\ status_op = "none"
    /\ \E packet \in StatusPool : ProcessStatusPacket(packet)

SpecStatus == InitStatus /\ [][NextStatus]_vars

\* The size of a message of type t, type byte included, for the types
\* other than theme-changed.
TableSize(t) == IF t \in {1, 2} THEN 1 ELSE 5

\* The types of messages that are stepped over.
SkippedTypes == {0, 1, 2, 4, 5, 6, 7}

\* C29: the offsets at which a type is read in a status packet start at 0
\* and go on, after each message of a type in 0..7 other than 3, by the
\* table size of that type; no type is read at or after the end of the
\* packet; nothing is read after a theme-changed message; a last message
\* of a stepped-over type that reaches or would pass the end of the packet
\* ends the loop at the end of the packet; and one reload-theme event is
\* posted when a 3 is read at one of these offsets, none otherwise.
C29_StatusSkipping ==
    status_op = "process_packet" =>
        LET p == status_packet
            R == status_read
        IN  /\ IF p = <<>> THEN R = <<>> /\ status_end = 0
               ELSE R # <<>> /\ R[1] = 0
            /\ \A k \in DOMAIN R : R[k] < Len(p)
            /\ status_end <= Len(p)
            /\ \A k \in DOMAIN R :
                   LET t == p[R[k] + 1]
                   IN  /\ k < Len(R) =>
                              /\ t \in SkippedTypes
                              /\ R[k + 1] = R[k] + TableSize(t)
                       /\ (k = Len(R) /\ t \in SkippedTypes) =>
                              /\ R[k] + TableSize(t) >= Len(p)
                              /\ status_end = Len(p)
                       /\ t = 3 => k = Len(R) /\ status_end = R[k]
            /\ status_events =
                   IF \E k \in DOMAIN R : p[R[k] + 1] = 3
                       THEN <<"reload_theme">> ELSE <<>>

\* C29 witness: a server state whose four data bytes are threes, followed
\* by a theme-changed message: the types are read at 0 and 5, and one
\* event is posted.
C29_Witness ==
    /\ status_op = "process_packet"
    /\ status_packet = <<0, 3, 3, 3, 3, 3>>
    /\ status_read = <<0, 5>>
    /\ status_events = <<"reload_theme">>

\* C30: a type of 8 or more read in a status packet is the last byte read
\* of the packet: the loop ends at its offset, and no event is posted for
\* the packet, whatever follows it.
C30_OutOfRangeType ==
    status_op = "process_packet" =>
        \A k \in DOMAIN status_read :
            status_packet[status_read[k] + 1] >= 8 =>
                /\ k = Len(status_read)
                /\ status_end = status_read[k]
                /\ status_events = <<>>

\* C30 witness: a keymap message, an unknown type and a theme type: the
\* types are read at 0 and 1, the loop ends at 1 and nothing is posted.
C30_Witness ==
    /\ status_op = "process_packet"
    /\ status_packet = <<1, 8, 3>>
    /\ status_read = <<0, 1>>
    /\ status_end = 1
    /\ status_events = <<>>

\* ------------------------------------------------------------------
\* Accepted requests and their send routines.

\* C31: the send routine of every request that request_execution has
\* accepted (a packet was posted for it) goes, when it is started, on to
\* the write of its packet's size: no send routine ends at its start
\* without a write.
C31_AcceptedMeansSent ==
    [][\A i \in DOMAIN senders :
           (senders[i].pc = "posted" /\ senders'[i].pc # "posted") =>
               senders'[i].pc = "write_size"]_vars

\* ------------------------------------------------------------------
\* The text of the prompt and the mode of the prompt.

\* C32: the handler of a show-normal-prompt or show-privileged-prompt
\* request leaves the text and its history empty; is_prompt_privileged
\* changes in the handler of such a request only; and when the return key
\* is handled in privileged mode, every byte of the text submitted was
\* entered under the privileged prompt after the most recent show-prompt
\* request.
C32_PromptModeIsolation ==
    [][/\ main_event' \in {"prompt_normal", "prompt_privileged"} =>
              string_' = <<>> /\ cursor_history_' = <<>>
       /\ is_prompt_privileged' # is_prompt_privileged =>
              main_event' \in {"prompt_normal", "prompt_privileged"}
       /\ (main_event' = "return" /\ cmd_op' = "execute_ipc") =>
              /\ is_prompt_privileged
              /\ cmd_string' = Runs(modify_command_string(string_, files_))
              /\ \A k \in DOMAIN string_ : entered_under[k] = "privileged"
              /\ Len(entered_under) = Len(string_)]_vars

\* C32 witness: under the privileged prompt a slash was typed and completed
\* with the tab key to /a/a, and the return key has submitted the text
\* through the IPC client.
C32_Witness ==
    /\ main_event = "return"
    /\ cmd_op = "execute_ipc"
    /\ string_ = <<Slash, 97, Slash, 97>>
    /\ cursor_history_ = <<0, 1>>
    /\ entered_under = [k \in 1..4 |-> "privileged"]

\* C33: the write end of the executor pipe is held by the parent alone and
\* the read end by the executor, apart from the launcher child's inherited
\* copy, which it closes before the second fork; a launched program holds
\* neither end; only the executor takes bytes from the pipe; and once the
\* parent has exited the executor's read of the empty pipe is the end of
\* the file, whatever programs are running.
C33_PipeOwnership ==
    /\ [](/\ pipe_fds = {"write"}
          /\ executor_fds = IF ex_pc = "exited" THEN {} ELSE {"read"}
          /\ launcher_fds = IF la_pc = "start" THEN {"read"} ELSE {}
          /\ Len(target_fds) = Len(targets)
          /\ \A i \in DOMAIN target_fds : target_fds[i] = {}
          /\ write_end_open = wr_open
          /\ (~wr_open /\ pipe = <<>> /\ ex_pc = "read_size")
                 => ENABLED EReadSize
          /\ (~wr_open /\ pipe = <<>> /\ ex_pc = "read_cmd")
                 => ENABLED EReadCmd)
    /\ [][/\ BLen(pipe') < BLen(pipe) =>
                 /\ ex_pc \in {"read_size", "read_cmd"}
                 /\ "read" \in executor_fds
                 /\ targets' = targets
                 /\ la_pc = "none" \/ la_pc' = la_pc
          /\ (~wr_open /\ pipe = <<>> /\ ex_pc' # ex_pc) =>
                 ex_pc' = "exited" \/ ex_pc = "wait"]_vars

\* C33 witness: the parent has exited and the executor has read the end of
\* the file while a launched program is still running.
C33_Witness ==
    /\ ~wr_open
    /\ ex_pc = "exited"
    /\ pipe = <<>>
    /\ \E i \in DOMAIN targets :
           targets[i].state = "running" /\ target_fds[i] = {}

---------------------------------------------------------------------------
(* The canonical command line read again by initialize_command.           *)

\* The NUL-terminated strings of a staged command, as the launcher child
\* reads them.
StagedStrings(command) ==
    IF command.size = 0 THEN <<>>
    ELSE LET a == arguments(command.storage, command.size)
         IN  [i \in DOMAIN a |-> Plain(a[i])]

\* The program a token stands for: names[token] + '/' + token for a key of
\* names (a directory that ends in the separator gets no second one), the
\* token itself otherwise.
CanonicalProgram(token, files) ==
    IF token \in DOMAIN files
        THEN (IF files[token] = Root THEN <<>> ELSE files[token])
                 \o <<Slash>> \o token
        ELSE token

\* C34: the string returned by modify_command_string, staged by
\* initialize_command, is a blob whose first string is the canonical
\* program of the input's token and whose other strings are those staged
\* from the argument remainder alone.
C34_ReparseConsistency ==
    db_op = "modify_command_string" =>
        LET s == split_command_string(db_input)
            argv == StagedStrings(initialize_command(Runs(db_result)))
            rest == StagedStrings(initialize_command(Runs(s.arguments)))
        IN  db_result # <<>> =>
                argv = <<CanonicalProgram(s.command, files_)>> \o rest

\* The same for inputs whose token holds no backslash.
ReparseWithoutBackslash ==
    db_op = "modify_command_string" =>
        LET s == split_command_string(db_input)
            argv == StagedStrings(initialize_command(Runs(db_result)))
            rest == StagedStrings(initialize_command(Runs(s.arguments)))
        IN  (/\ db_result # <<>>
             /\ \A k \in DOMAIN s.command : s.command[k] # Backslash) =>
                argv = <<CanonicalProgram(s.command, files_)>> \o rest

---------------------------------------------------------------------------
(* The rebuilds of the database over search paths that name the root       *)
(* directory, and a directory with one and with two trailing separators.   *)

\* The values of PATH: /; /:/a; /b//:/a; /a:/b/.
IndexPathPool ==
    { Root,
      Root \o <<Colon>> \o Dir,
      DirB \o <<Slash, Slash, Colon>> \o Dir,
      Dir \o <<Colon>> \o DirB \o <<Slash>> }

\* The root directory holds the executable x, or x and y.
RootListings ==
    { <<[name |-> <<120>>, kind |-> "exec"]>>,
      <<[name |-> <<120>>, kind |-> "exec"],
        [name |-> <<121>>, kind |-> "exec"]>> }

InitIndex ==
    /\ env_path \in IndexPathPool
    /\ \E f \in DirectoryStates, l \in RootListings :
           directories = [d \in DOMAIN f \cup {Root} |->
                             IF d = Root THEN l ELSE f[d]]
    /\ LET db == initialize(env_path, directories, <<>>, {})
       IN  files_ = db.files_ /\ paths_ = db.paths_
    /\ db_op = "constructed"
    /\ db_input = <<>>
    /\ db_result = <<>>
    /\ db_shown = <<>>
    /\ cmdIdle
    /\ startIdle
    /\ clockIdle
    /\ statusIdle
    /\ execIdle
    /\ ipcIdle

SpecIndex == InitIndex /\ [][NextRebuild]_vars

\* The index from 0 of the character after the last separator of a path.
RECURSIVE filename_offset(_, _)
filename_offset(path, k) ==
    IF k = 0 THEN 0
    ELSE IF path[k] = Slash THEN k
    ELSE filename_offset(path, k - 1)

\* std::filesystem::path::filename() of a path that does not end in a
\* separator.
filename(path) ==
    SubSeq(path, filename_offset(path, Len(path)) + 1, Len(path))

\* parent_path() of such a path.
parent_of(path) ==
    IF filename_offset(path, Len(path)) = 0 THEN <<>>
    ELSE without_trailing_separator(
             SubSeq(path, 1, filename_offset(path, Len(path))))

\* C35 as stated: for every entry of names the string directory + '/' +
\* name is an element of paths, and the base name of every element of
\* paths is a key of names.
C35_IndexConsistencyAsStated ==
    /\ \A name \in DOMAIN files_ :
           files_[name] \o <<Slash>> \o name \in paths_
    /\ \A path \in paths_ : filename(path) \in DOMAIN files_

\* C35, amended: for every entry of names, paths holds a path whose
\* filename() is the name and whose parent_path() is the directory; that
\* path is directory + '/' + name unless the directory is the root or is
\* written in PATH with more than one trailing separator; and the base
\* name of every element of paths is a key of names.
C35_IndexConsistency ==
    /\ \A name \in DOMAIN files_ :
           /\ \E path \in paths_ :
                  filename(path) = name /\ parent_of(path) = files_[name]
           /\ (/\ files_[name] # Root
               /\ env_path \notin {DirB \o <<Slash, Slash, Colon>> \o Dir}) =>
                  files_[name] \o <<Slash>> \o name \in paths_
    /\ \A path \in paths_ : filename(path) \in DOMAIN files_

\* C35 witness: after a rebuild over /b//:/a, x is found in /b and y in /a.
C35_Witness ==
    /\ db_op = "initialize"
    /\ env_path = DirB \o <<Slash, Slash, Colon>> \o Dir
    /\ DOMAIN files_ = {<<120>>, <<121>>}
    /\ files_[<<120>>] = DirB
    /\ files_[<<121>>] = Dir
    /\ paths_ = {DirB \o <<Slash, Slash, 120>>, Dir \o <<Slash, 121>>}

---------------------------------------------------------------------------
(* process_packet of the two channels, followed iteration by iteration.   *)

\* One iteration of the loop of run_dispatcher_client's process_packet on
\* the span that is left: the span after it, and whether the loop goes on.
dispatch_iteration(packet) ==
    [packet |-> BDrop(packet, CommandSize), stop |-> FALSE]

\* One iteration of the loop of run_status_client's process_packet.
status_iteration(packet) ==
    LET type == BAt(packet, 0)
    IN  IF type < Len(data_sizes)
            THEN IF type = status_type_theme
                     THEN [packet |-> packet, stop |-> TRUE]
                 ELSE [packet |->
                           BDrop(packet,
                                 IF BLen(packet) < data_sizes[type + 1]
                                     THEN BLen(packet)
                                     ELSE data_sizes[type + 1]),
                       stop |-> FALSE]
        ELSE [packet |-> packet, stop |-> TRUE]

\* The loop's condition.
loop_condition(ch, packet) ==
    IF ch = "dispatch" THEN BLen(packet) >= CommandSize
    ELSE packet # <<>>

\* The packets followed: the short status packets, and packets of 63, 64,
\* 65, 128 and 8192 bytes that are one command code or one status type
\* repeated, alone or after a first byte.
LoopBytes == {0, 1, 2, 3, 7, 8}

LoopPool ==
    {Runs(p) : p \in StatusPool}
        \cup {Norm(<<<<b, 1>>, <<c, n - 1>>>>) :
                 b \in LoopBytes, c \in {0, 1},
                 n \in {CommandSize - 1, CommandSize, CommandSize + 1,
                        2 * CommandSize, IpcStorageSize}}

InitLoop ==
    /\ dbIdle
    /\ cmdIdle
    /\ startIdle
    /\ clockIdle
    /\ statusIdle
    /\ execIdle
    /\ ipcIdle

\* process_packet is called with the packet read.
LoopStart(ch, packet) ==
    /\ loop_pc = "none"
    /\ loop_pc' = "loop"
    /\ loop_ch' = ch
    /\ loop_packet' = packet
    /\ loop_size' = BLen(packet)
    /\ loop_count' = 0
    /\ UNCHANGED <<status_op, status_packet, status_read, status_end,
                   status_events, startVars, clockVars, dbVars, cmdVars,
                   parVars, exVars, ipcVars>>

\* The loop's condition is tested and, when it holds, its body is run.
LoopIterate ==
    /\ loop_pc = "loop"
    /\ IF ~loop_condition(loop_ch, loop_packet)
           THEN /\ loop_pc' = "done"
                /\ UNCHANGED <<loop_packet, loop_count>>
       ELSE \E r \in {IF loop_ch = "dispatch"
                          THEN dispatch_iteration(loop_packet)
                          ELSE status_iteration(loop_packet)} :
                /\ loop_packet' = r.packet
                /\ loop_count' = loop_count + 1
                /\ loop_pc' = IF r.stop THEN "done" ELSE "loop"
    /\ UNCHANGED <<loop_ch, loop_size>>
    /\ UNCHANGED <<status_op, status_packet, status_read, status_end,
                   status_events, startVars, clockVars, dbVars, cmdVars,
                   parVars, exVars, ipcVars>>

NextLoop ==
    \/ /\ loop_pc = "none"
       /\ \E ch \in {"dispatch", "status"}, packet \in LoopPool :
              LoopStart(ch, packet)
    \/ LoopIterate

\* The thread that runs process_packet goes on running it.
SpecLoopLive == InitLoop /\ [][NextLoop]_vars /\ WF_vars(LoopIterate)

\* C36: for a packet of 0 to 8192 bytes the loop of either process_packet
\* makes at most as many iterations as the packet has bytes: every
\* iteration ends the loop or leaves a span that is shorter by at least
\* one byte; and the loop does end.
C36_ParsingTerminates ==
    /\ [](/\ loop_size <= IpcStorageSize
          /\ loop_count <= loop_size
          /\ loop_pc = "loop" => loop_count + BLen(loop_packet) <= loop_size)
    /\ [][loop_count' = loop_count + 1 =>
              \/ loop_pc' = "done"
              \/ BLen(loop_packet') <= BLen(loop_packet) - 1]_vars
    /\ (loop_pc = "loop") ~> (loop_pc = "done")

\* C36 witness: a status packet of 8192 bytes has been processed in 8192
\* iterations.
C36_Witness ==
    /\ loop_pc = "done"
    /\ loop_ch = "status"
    /\ loop_size = IpcStorageSize
    /\ loop_count = IpcStorageSize

---------------------------------------------------------------------------
(* The two parsers of a typed string: split_command_string of the          *)
(* database and initialize_command of the submission, on the same string.  *)

InitToken ==
    /\ dbIdle
    /\ cmdIdle
    /\ startIdle
    /\ clockIdle
    /\ statusIdle
    /\ execIdle
    /\ ipcIdle

\* Both parsers are given the string: db_result is the command that
\* split_command_string extracts, cmd_writes holds the staged blob.
ParseTyped(string) ==
    /\ db_op = "none"
    /\ db_op' = "split_command_string"
    /\ db_input' = string
    /\ db_result' = split_command_string(string).command
    /\ cmd_op' = "initialize_command"
    /\ cmd_string' = Runs(string)
    /\ cmd_writes' = <<initialize_command(Runs(string)).storage>>
    /\ UNCHANGED <<env_path, directories, files_, paths_, db_shown, cmd_ret,
                   cmd_post, mainVars, startVars, clockVars, statusVars,
                   parVars, exVars, ipcVars>>

NextToken == \E string \in InputPool : ParseTyped(string)

SpecToken == InitToken /\ [][NextToken]_vars

\* C37: when the blob staged from a typed string is not empty, its first
\* NUL-terminated string is the command that split_command_string
\* extracts from the same string.
C37_TokenAgreement ==
    (db_op = "split_command_string" /\ cmd_writes[1] # <<>>) =>
        Plain(BTake(cmd_writes[1], BIndexNul(cmd_writes[1], 0, 0)))
            = db_result

\* C37 witness: an escaped space followed by a space: the command is the
\* one space, and the blob is that space and a NUL.
C37_Witness ==
    /\ db_op = "split_command_string"
    /\ db_input = <<Backslash, Space, Space>>
    /\ db_result = <<Space>>
    /\ cmd_writes = <<Runs(<<Space, Nul>>)>>

\* C38: the cursor positions recorded are strictly increasing and each is
\* smaller than the length of the text; the backspace key leaves the text
\* as it was before the most recent entry that has not been erased, and
\* removes that entry's position; an erase right after an entry restores
\* the text and the positions; entering an empty string and erasing with
\* no position recorded change nothing.
C38_UndoStack ==
    /\ [](/\ \A k \in DOMAIN cursor_history_ :
                 cursor_history_[k] < Len(string_)
          /\ \A j, k \in DOMAIN cursor_history_ :
                 j < k => cursor_history_[j] < cursor_history_[k])
    /\ [][/\ main_event' \in {"text", "tab"} =>
                 \/ /\ string_' = string_
                    /\ cursor_history_' = cursor_history_
                 \/ /\ Len(string_') > Len(string_)
                    /\ SubSeq(string_', 1, Len(string_)) = string_
                    /\ cursor_history_' =
                           Append(cursor_history_, Len(string_))
                    /\ text_input_erase(string_', cursor_history_')
                           = [string_ |-> string_,
                              cursor_history_ |-> cursor_history_]
          /\ main_event' = "backspace" =>
                 IF cursor_history_ = <<>>
                     THEN /\ string_' = string_
                          /\ cursor_history_' = cursor_history_
                 ELSE /\ string_' =
                             SubSeq(string_, 1,
                                    cursor_history_[Len(cursor_history_)])
                      /\ cursor_history_' =
                             SubSeq(cursor_history_, 1,
                                    Len(cursor_history_) - 1)]_vars

\* C38 witness: the tab key has entered a completion of three characters
\* after a typed separator: one position is recorded for it.
C38_Witness ==
    /\ main_event = "tab"
    /\ string_ = <<Slash, 97, Slash, 97>>
    /\ cursor_history_ = <<0, 1>>

===========================================================================
